---- MODULE Spec2Model ----
(***************************************************************************)
(* A model of the dependency-resolution core: the pattern registry of      *)
(* PackageResolver (patterns, patternsByPackage), PackageReference, the    *)
(* Lockfile cache, and the find / init pipeline.                           *)
(*                                                                         *)
(* Strings are sequences of one-character strings, so that parsing         *)
(* (normalizePattern, the semver reader) is computed and not assumed.      *)
(* Objects (manifests, references) live in heaps indexed by identifiers,   *)
(* so that object identity and aliasing are those of the program.          *)
(***************************************************************************)
EXTENDS Integers, Sequences, FiniteSets, TLC

(* ------------------------------------------------------------------ *)
(* Bounds of the model                                                 *)
(* ------------------------------------------------------------------ *)

\* operations applied to the resolver in one behaviour of Spec
MaxOps == 5

(* ------------------------------------------------------------------ *)
(* Strings                                                             *)
(* ------------------------------------------------------------------ *)

LATEST == <<"l", "a", "t", "e", "s", "t">>
STAR == <<"*">>
None == <<"n", "o", "n", "e">>

RECURSIVE IndexOfFrom(_, _, _)
\* Array.prototype.indexOf / String.prototype.indexOf; 0 stands for JS's -1
IndexOfFrom(s, x, i) ==
  IF i > Len(s) THEN 0
  ELSE IF s[i] = x THEN i
  ELSE IndexOfFrom(s, x, i + 1)

IndexOf(s, x) == IndexOfFrom(s, x, 1)

Contains(s, x) == IndexOf(s, x) # 0

\* the sequence without its i-th element
RemoveAt(s, i) == SubSeq(s, 1, i - 1) \o SubSeq(s, i + 1, Len(s))

\* byName.splice(byName.indexOf(x), 1): a start of -1 (x absent) counts from
\* the end, so the last element goes
SpliceIndexOf(s, x) ==
  IF s = <<>> THEN s
  ELSE IF Contains(s, x) THEN RemoveAt(s, IndexOf(s, x))
  ELSE RemoveAt(s, Len(s))

Range(s) == {s[i] : i \in 1..Len(s)}

(* ------------------------------------------------------------------ *)
(* normalizePattern                                                    *)
(* ------------------------------------------------------------------ *)

\* a variant of normalizePattern that reports a version for `name@` as well
normalizePatternAtHasVersion(pattern) ==
  LET isScoped == Len(pattern) > 0 /\ pattern[1] = "@"
      body == IF isScoped THEN Tail(pattern) ELSE pattern
      at == IndexOf(body, "@")
      first == IF at = 0 THEN body ELSE SubSeq(body, 1, at - 1)
      rest == IF at = 0 THEN <<>> ELSE SubSeq(body, at + 1, Len(body))
      name == IF isScoped THEN <<"@">> \o first ELSE first
  IN  IF at = 0 THEN [name |-> name, range |-> LATEST, hasVersion |-> FALSE]
      ELSE [name |-> name, range |-> IF rest # <<>> THEN rest ELSE STAR,
            hasVersion |-> TRUE]

\* normalizePattern(pattern)
normalizePattern(pattern) ==
  LET isScoped == Len(pattern) > 0 /\ pattern[1] = "@"
      body == IF isScoped THEN Tail(pattern) ELSE pattern
      at == IndexOf(body, "@")
      first == IF at = 0 THEN body ELSE SubSeq(body, 1, at - 1)
      rest == IF at = 0 THEN <<>> ELSE SubSeq(body, at + 1, Len(body))
      name == IF isScoped THEN <<"@">> \o first ELSE first
  IN  IF at = 0 THEN [name |-> name, range |-> LATEST, hasVersion |-> FALSE]
      ELSE IF rest # <<>> THEN [name |-> name, range |-> rest, hasVersion |-> TRUE]
      ELSE [name |-> name, range |-> STAR, hasVersion |-> FALSE]

getName(pattern) == normalizePattern(pattern).name

(* ------------------------------------------------------------------ *)
(* semver (versions with one-digit components; ranges *, x.y.z,        *)
(* ^x.y.z, ~x.y.z)                                                     *)
(* ------------------------------------------------------------------ *)

DigitChars == {"0", "1", "2", "3", "4", "5", "6", "7", "8", "9"}

Digit(c) ==
  CASE c = "0" -> 0 [] c = "1" -> 1 [] c = "2" -> 2 [] c = "3" -> 3
    [] c = "4" -> 4 [] c = "5" -> 5 [] c = "6" -> 6 [] c = "7" -> 7
    [] c = "8" -> 8 [] c = "9" -> 9

\* semver.valid(version)
semverValid(v) ==
  /\ Len(v) = 5
  /\ v[1] \in DigitChars /\ v[2] = "." /\ v[3] \in DigitChars
  /\ v[4] = "." /\ v[5] \in DigitChars

parseVersion(v) == <<Digit(v[1]), Digit(v[3]), Digit(v[5])>>

\* semver.validRange(range)
semverValidRange(r) ==
  \/ r = <<>>
  \/ r = STAR
  \/ semverValid(r)
  \/ Len(r) = 6 /\ r[1] \in {"^", "~"} /\ semverValid(Tail(r))

\* a < b on parsed versions
versionLess(a, b) ==
  \/ a[1] < b[1]
  \/ a[1] = b[1] /\ a[2] < b[2]
  \/ a[1] = b[1] /\ a[2] = b[2] /\ a[3] < b[3]

\* the version that bounds ^base from above
caretUpper(b) ==
  IF b[1] > 0 THEN <<b[1] + 1, 0, 0>>
  ELSE IF b[2] > 0 THEN <<0, b[2] + 1, 0>>
  ELSE <<0, 0, b[3] + 1>>

\* semver.satisfies(version, range)
semverSatisfies(v, r) ==
  /\ semverValid(v)
  /\ semverValidRange(r)
  /\ LET pv == parseVersion(v)
     IN  IF r = <<>> \/ r = STAR THEN TRUE
         ELSE IF semverValid(r) THEN pv = parseVersion(r)
         ELSE LET base == parseVersion(Tail(r))
                  upper == IF r[1] = "^" THEN caretUpper(base)
                           ELSE <<base[1], base[2] + 1, 0>>
              IN  ~versionLess(pv, base) /\ versionLess(pv, upper)

\* semver.maxSatisfying(versions, range); None when nothing satisfies
semverMaxSatisfying(versions, r) ==
  LET ok == {i \in 1..Len(versions) : semverSatisfies(versions[i], r)}
  IN  IF ok = {} THEN None
      ELSE LET best == CHOOSE i \in ok :
                         \A j \in ok : ~versionLess(parseVersion(versions[i]),
                                                    parseVersion(versions[j]))
           IN  versions[best]

\* getExoticResolver(range) # null: file:, link:, http(s):, git urls, user/repo
isExotic(r) == Contains(r, ":") \/ Contains(r, "/")

(* ------------------------------------------------------------------ *)
(* The heap and the resolver state                                     *)
(*                                                                     *)
(* manifests[m] = [name, version, ref, remoteType, fresh,               *)
(*   prebuiltVariants]: a Manifest                                       *)
(*   object; ref is the identifier of its _reference (0: none)          *)
(* refs[r] = [patterns, permissions, remoteType, resolved]: a            *)
(*   PackageReference with the type and the resolved URL of its remote   *)
(* patterns: pattern -> manifest identifier (resolver.patterns)         *)
(* patternsByPackage: name -> list of patterns                          *)
(* cache: pattern -> lockfile entry (lockfile.cache)                    *)
(* threw: an exception escaped the operation                            *)
(*                                                                     *)
(* The operations below are functions from a state record to a state   *)
(* record; the actions read the variables into a record and write the  *)
(* result back.                                                        *)
(* ------------------------------------------------------------------ *)

NoPermissions == [k \in {} |-> TRUE]

\* this.patterns[pattern] as an identifier; 0 is undefined
getResolvedPattern(s, pattern) ==
  IF pattern \in DOMAIN s.patterns THEN s.patterns[pattern] ELSE 0

\* Lockfile.getLocked(pattern) is not undefined
hasLocked(cache, pattern) == pattern \in DOMAIN cache

\* explodeEntry(pattern, obj): the defaults getLocked writes into the entry
explodeEntry(pattern, obj) ==
  [obj EXCEPT !.name = IF @ = <<>> THEN getName(pattern) ELSE @]

\* the cache after Lockfile.getLocked(pattern)
cacheAfterGetLocked(cache, pattern) ==
  IF hasLocked(cache, pattern)
  THEN [cache EXCEPT ![pattern] = explodeEntry(pattern, @)]
  ELSE cache

\* the entry Lockfile.getLocked(pattern) returns, when there is one
getLocked(cache, pattern) == explodeEntry(pattern, cache[pattern])

\* Lockfile.removePattern(pattern)
Lockfile_removePattern(cache, pattern) ==
  [q \in DOMAIN cache \ {pattern} |-> cache[q]]

\* PackageResolver.addPattern(pattern, info)
addPattern(s, pattern, info) ==
  LET name == s.manifests[info].name
      old == IF name \in DOMAIN s.patternsByPackage
             THEN s.patternsByPackage[name] ELSE <<>>
      byName == IF Contains(old, pattern) THEN old ELSE Append(old, pattern)
  IN  [s EXCEPT !.patterns = (pattern :> info) @@ @,
                !.patternsByPackage = (name :> byName) @@ @]

\* PackageResolver.removePattern(pattern)
removePattern(s, pattern) ==
  IF pattern \notin DOMAIN s.patterns THEN s
  ELSE LET name == s.manifests[s.patterns[pattern]].name
       IN  IF name \notin DOMAIN s.patternsByPackage THEN s
           ELSE [s EXCEPT
                   !.patternsByPackage[name] = SpliceIndexOf(@, pattern),
                   !.patterns = [q \in DOMAIN @ \ {pattern} |-> @[q]]]

RECURSIVE removeAllFrom(_, _, _)
removeAllFrom(s, pats, i) ==
  IF i > Len(pats) THEN s
  ELSE removeAllFrom(removePattern(s, pats[i]), pats, i + 1)

\* PackageReference.prune()
prune(s, r) == removeAllFrom(s, s.refs[r].patterns, 1)

\* PackageReference.addPattern(pattern, manifest) on reference r
Reference_addPattern(s, r, pattern, manifest) ==
  LET s1 == addPattern(s, pattern, manifest)
      s2 == [s1 EXCEPT !.refs[r].patterns = Append(@, pattern)]
  IN  IF hasLocked(s2.cache, pattern)
      THEN [s2 EXCEPT !.cache = cacheAfterGetLocked(@, pattern),
                      !.refs[r].permissions =
                          getLocked(s2.cache, pattern).permissions @@ @]
      ELSE s2

\* PackageResolver.replacePattern(pattern, newPattern)
replacePattern(s, pattern, newPattern) ==
  LET pkg == getResolvedPattern(s, pattern)
  IN  IF pkg = 0 \/ s.manifests[pkg].ref = 0 THEN [s EXCEPT !.threw = TRUE]
      ELSE LET ref == s.manifests[pkg].ref
               s1 == [s EXCEPT !.refs[ref].patterns = <<newPattern>>]
           IN  removePattern(addPattern(s1, newPattern, pkg), pattern)

RECURSIVE dedupeFrom(_, _, _, _, _)
dedupeFrom(s, pats, i, seen, deduped) ==
  IF i > Len(pats) THEN deduped
  ELSE LET info == getResolvedPattern(s, pats[i])
       IN  IF info \in seen THEN dedupeFrom(s, pats, i + 1, seen, deduped)
           ELSE dedupeFrom(s, pats, i + 1, seen \cup {info}, Append(deduped, pats[i]))

\* PackageResolver.dedupePatterns(patterns)
dedupePatterns(s, pats) == dedupeFrom(s, pats, 1, {}, <<>>)

RECURSIVE addAllFrom(_, _, _, _, _)
addAllFrom(s, r, manifest, pats, i) ==
  IF i > Len(pats) THEN s
  ELSE addAllFrom(Reference_addPattern(s, r, pats[i], manifest), r, manifest, pats, i + 1)

RECURSIVE findCollapseTo(_, _, _, _)
\* the first loop of collapsePackageVersions: the index of the first pattern
\* whose manifest has the version, 0 when there is none, -1 when a pattern
\* read on the way has no manifest (a TypeError)
findCollapseTo(s, version, pats, i) ==
  IF i > Len(pats) THEN 0
  ELSE IF getResolvedPattern(s, pats[i]) = 0 THEN -1
  ELSE IF s.manifests[s.patterns[pats[i]]].version = version THEN i
  ELSE findCollapseTo(s, version, pats, i + 1)

RECURSIVE collapseFrom(_, _, _, _, _, _)
\* the second loop of collapsePackageVersions
collapseFrom(s, pats, i, toPattern, toManifest, toRef) ==
  IF s.threw \/ i > Len(pats) THEN s
  ELSE IF pats[i] = toPattern
  THEN collapseFrom(s, pats, i + 1, toPattern, toManifest, toRef)
  ELSE LET m == getResolvedPattern(s, pats[i])
       IN  IF m = 0 \/ s.manifests[m].ref = 0 THEN [s EXCEPT !.threw = TRUE]
           ELSE LET ref == s.manifests[m].ref
                    refPatterns == s.refs[ref].patterns
                    s1 == prune(s, ref)
                    s2 == addAllFrom(s1, toRef, toManifest, refPatterns, 1)
                IN  collapseFrom(s2, pats, i + 1, toPattern, toManifest, toRef)

\* collapsePackageVersions: const human = `${name}@${version}`
human(name, version) == name \o <<"@">> \o version

\* PackageResolver.collapsePackageVersions(name, version, patterns)
collapsePackageVersions(s, name, version, pats) ==
  LET at == findCollapseTo(s, version, pats, 1)
  IN  IF at <= 0 THEN [s EXCEPT !.threw = TRUE]
      ELSE LET toManifest == s.patterns[pats[at]]
               toRef == s.manifests[toManifest].ref
           IN  IF toRef = 0 THEN [s EXCEPT !.threw = TRUE]
               ELSE collapseFrom(s, pats, 1, pats[at], toManifest, toRef)

\* this.patternsByPackage[name] || []
byPackage(s, name) ==
  IF name \in DOMAIN s.patternsByPackage THEN s.patternsByPackage[name] ELSE <<>>

\* PackageResolver.collapseAllVersionsOfPackage(name, version)
collapseAllVersionsOfPackage(s, name, version) ==
  IF name \notin DOMAIN s.patternsByPackage THEN [s EXCEPT !.threw = TRUE]
  ELSE collapsePackageVersions(s, name, version,
                               dedupePatterns(s, s.patternsByPackage[name]))

RECURSIVE explodeAllFrom(_, _, _)
explodeAllFrom(cache, pats, i) ==
  IF i > Len(pats) THEN cache
  ELSE explodeAllFrom(cacheAfterGetLocked(cache, pats[i]), pats, i + 1)

\* the filter of optimizeResolutions: no lockfile entry and no workspace remote
isCollapsable(s, pattern) ==
  /\ ~hasLocked(s.cache, pattern)
  /\ s.manifests[s.patterns[pattern]].remoteType # "workspace"

\* a variant of the version search that settles for the highest available
\* version when none satisfies every range
chosenVersionHighest(versions, ranges) ==
  CHOOSE v \in versions : \A w \in versions : ~versionLess(parseVersion(v), parseVersion(w))

\* the version optimizeResolutions collapses to: the first of the available
\* versions, in descending order, that satisfies every range; None otherwise
chosenVersion(versions, ranges) ==
  LET ok == {v \in versions : \A i \in 1..Len(ranges) : semverSatisfies(v, ranges[i])}
  IN  IF ok = {} THEN None
      ELSE CHOOSE v \in ok : \A w \in ok : ~versionLess(parseVersion(v), parseVersion(w))

\* PackageResolver.optimizeResolutions(name)
optimizeResolutions(s, name) ==
  LET pats == dedupePatterns(s, byPackage(s, name))
      unresolved == {i \in 1..Len(pats) : getResolvedPattern(s, pats[i]) = 0}
  IN  IF unresolved # {}
      THEN LET k == CHOOSE i \in unresolved : \A j \in unresolved : i <= j
           IN  [s EXCEPT !.cache = explodeAllFrom(@, SubSeq(pats, 1, k - 1), 1),
                         !.threw = TRUE]
      ELSE LET collapsable == SelectSeq(pats, LAMBDA q : isCollapsable(s, q))
               s1 == [s EXCEPT !.cache = explodeAllFrom(@, pats, 1)]
               versions == {s.manifests[s.patterns[collapsable[i]]].version :
                              i \in 1..Len(collapsable)}
               ranges == [i \in 1..Len(collapsable) |->
                            normalizePattern(collapsable[i]).range]
               version == chosenVersion(versions, ranges)
           IN  IF Len(collapsable) < 2 \/ version = None THEN s1
               ELSE collapsePackageVersions(s1, name, version, collapsable)

\* PackageResolver.updateManifest(ref, newPkg); newPkg is a manifest of the heap
updateManifest(s, ref, newPkg) ==
  LET pats == s.refs[ref].patterns
      s1 == [s EXCEPT !.manifests[newPkg].ref = ref,
                      !.manifests[newPkg].remoteType = s.refs[ref].remoteType]
  IN  IF pats = <<>> \/ getResolvedPattern(s, pats[1]) = 0
      THEN [s1 EXCEPT !.threw = TRUE]
      ELSE LET oldPkg == s.manifests[s.patterns[pats[1]]]
           IN  [s1 EXCEPT !.manifests[newPkg].name = oldPkg.name,
                          !.manifests[newPkg].fresh = oldPkg.fresh,
                          !.manifests[newPkg].prebuiltVariants = oldPkg.prebuiltVariants,
                          !.patterns = [q \in Range(pats) |-> newPkg] @@ @]

RECURSIVE rebindFrom(_, _, _, _)
\* the inner loop of updateManifests
rebindFrom(s, newPkg, pats, i) ==
  IF i > Len(pats) THEN s
  ELSE IF getResolvedPattern(s, pats[i]) = 0 THEN [s EXCEPT !.threw = TRUE]
  ELSE rebindFrom([s EXCEPT !.manifests[newPkg].prebuiltVariants =
                                s.manifests[s.patterns[pats[i]]].prebuiltVariants,
                            !.patterns[pats[i]] = newPkg],
                  newPkg, pats, i + 1)

\* PackageResolver.updateManifests([newPkg])
updateManifests(s, newPkg) ==
  IF s.manifests[newPkg].ref = 0 THEN s
  ELSE rebindFrom(s, newPkg, s.refs[s.manifests[newPkg].ref].patterns, 1)

\* shouldUpdateLockfile(lockfileEntry, resolutionEntry)
shouldUpdateLockfile(s, pattern, ref) ==
  /\ hasLocked(s.cache, pattern)
  /\ getLocked(s.cache, pattern).resolved # s.refs[ref].resolved

\* resolveToResolution, the branch taken when the pin `resolution` applies to
\* the request and is already resolved
attachToResolution(s, pattern, resolution) ==
  LET resolutionManifest == s.patterns[resolution]
      ref == s.manifests[resolutionManifest].ref
  IN  IF ref = 0 THEN [s EXCEPT !.threw = TRUE]
      ELSE LET s1 == [s EXCEPT !.refs[ref].patterns = Append(@, pattern)]
               s2 == addPattern(s1, pattern, resolutionManifest)
               s3 == [s2 EXCEPT !.cache = cacheAfterGetLocked(@, pattern)]
           IN  IF shouldUpdateLockfile(s3, pattern, ref)
               THEN [s3 EXCEPT !.cache = Lockfile_removePattern(@, pattern)]
               ELSE s3

(* ------------------------------------------------------------------ *)
(* The packages of the scenario                                        *)
(* ------------------------------------------------------------------ *)

NameA == <<"a">>
NameB == <<"b">>
NameC == <<"c">>
NameD == <<"d">>

V100 == <<"1", ".", "0", ".", "0">>
V105 == <<"1", ".", "0", ".", "5">>
V110 == <<"1", ".", "1", ".", "0">>

NPM == <<"n", "p", "m">>

\* a@^1.0.0, b@^1.0.0, c@1.0.0
PatA == <<"a", "@", "^", "1", ".", "0", ".", "0">>
PatB == <<"b", "@", "^", "1", ".", "0", ".", "0">>
PatCPin == <<"c", "@", "1", ".", "0", ".", "0">>

\* c@^1.0.0, c@~1.0.1, c@~1.1.0, d@^1.0.0
PatC1 == <<"c", "@", "^", "1", ".", "0", ".", "0">>
PatC2 == <<"c", "@", "~", "1", ".", "0", ".", "1">>
PatC3 == <<"c", "@", "~", "1", ".", "1", ".", "0">>
PatD == <<"d", "@", "^", "1", ".", "0", ".", "0">>

\* the versions the registry advertises, ascending
registryVersions(name) ==
  IF name = NameC THEN <<V100, V105, V110>> ELSE <<V100>>

\* the dependencies the registry (and a lockfile written from it) records for
\* every version of a package: a -> c (under the range aDep), d; b -> c@~1.0.1;
\* d -> a (a cycle)
dependenciesOf(name, aDep) ==
  IF name = NameA THEN <<aDep, PatD>>
  ELSE IF name = NameB THEN <<PatC2>>
  ELSE IF name = NameD THEN <<PatA>>
  ELSE <<>>

\* the resolved URL of a registry tarball
resolvedUrl(name, version) == <<name, version>>

\* patterns and names the operations of Spec are called with
OpPatterns == {PatC1, PatC2, PatC3, PatD}
OpNames == {NameC, NameD}

(* ------------------------------------------------------------------ *)
(* State                                                               *)
(* ------------------------------------------------------------------ *)

VARIABLES
  patterns,             \* resolver.patterns
  patternsByPackage,    \* resolver.patternsByPackage
  manifests,            \* the Manifest objects
  refs,                 \* the PackageReference objects
  cache,                \* lockfile.cache
  threw,                \* an exception escaped (init rejected)
  ops,                  \* operations applied so far (Spec)
  input,                \* the arguments of a call of a pure function
  output,               \* <<result>> once the call has returned
  flat,                 \* resolver.flat
  resolutions,          \* resolutionMap: the pins of the root manifest
  delayQueue,           \* resolutionMap.delayQueue: tasks whose pin was unresolved
  fetchingPatterns,     \* resolver.fetchingPatterns
  usedRegistries,       \* resolver.usedRegistries
  delayedResolveQueue,  \* resolver.delayedResolveQueue: <<task, info>>
  tasks,                \* the calls of find: request, position, fresh flag
  log,                  \* what the calls of find did, in order
  aDep,                 \* the registry: the pattern under which a depends on c
  deps,                 \* the root requests init was called with
  isFlat,               \* the isFlat option init was called with
  rootIdx,              \* init: the root requests whose find was started
  phase,                \* init: the phase it is in
  configCache,          \* config.cache: the promise stored for a key (0: none)
  promises,             \* the promises getCache stored, with their state
  calls,                \* the calls of getCache: key, promise returned, factory invoked
  pc,                   \* cli: where each instance stands under its mutex
  scopeOf,              \* cli: the lock file path or port of each instance
  held,                 \* the lock files: the instance that holds each (0: none)
  listening,            \* the ports: the instance whose server is bound (0: none)
  clients,              \* cli: the sockets connected to the server of each instance
  isFirstTime,          \* cli: the isFirstTime argument of runEventuallyWithFile
  warned,               \* cli: the 'waitingInstance' warnings of each instance
  failures,             \* cli: the failed lock attempts of each instance
  stalling,             \* cli: the instances whose 'Process stalled' timer is set
  named,                \* cli: the waitingNamedInstance warnings each instance has given
  processExitCode,      \* process.exitCode of each instance
  net,                  \* cli: the servers, requests and sockets of one process
  main,                 \* cli: main of one process: its mutex, run and exit code
  walk                  \* config: the suspended call that reads the file system

resolverVars == <<patterns, patternsByPackage, manifests, refs, cache, threw>>
findVars == <<flat, resolutions, delayQueue, fetchingPatterns, usedRegistries,
              delayedResolveQueue, tasks, log>>
initVars == <<aDep, deps, isFlat, rootIdx, phase>>

callVars == <<ops, input, output>>

configVars == <<configCache, promises, calls>>
fileVars == <<isFirstTime, warned, failures>>
mutexVars == <<pc, scopeOf, held, listening, clients, fileVars, stalling, named,
              processExitCode, net, main, walk>>
extraVars == <<configVars, mutexVars>>

vars == <<resolverVars, callVars, findVars, initVars, extraVars>>

\* Config: this.cache = map(), and no call of getCache yet
InitConfig ==
  /\ configCache = <<>>
  /\ promises = <<>>
  /\ calls = <<>>

\* no instance of the cli stands under a mutex
InstancesIdle ==
  /\ pc = <<>>
  /\ scopeOf = <<>>
  /\ held = <<>>
  /\ listening = <<>>
  /\ clients = <<>>
  /\ isFirstTime = <<>>
  /\ warned = <<>>
  /\ failures = <<>>
  /\ stalling = {}
  /\ named = <<>>
  /\ processExitCode = <<>>

\* no instance of the cli has been started
NoInstances == InstancesIdle /\ net = <<>> /\ main = <<>> /\ walk = <<>>

\* nothing but the component under study is active
OtherIdle == InitConfig /\ NoInstances

Cur ==
  [patterns |-> patterns, patternsByPackage |-> patternsByPackage,
   manifests |-> manifests, refs |-> refs, cache |-> cache, threw |-> FALSE,
   flat |-> flat, resolutions |-> resolutions, delayQueue |-> delayQueue,
   fetchingPatterns |-> fetchingPatterns, usedRegistries |-> usedRegistries,
   delayedResolveQueue |-> delayedResolveQueue, tasks |-> tasks, log |-> log]

Commit(s) ==
  /\ patterns' = s.patterns
  /\ patternsByPackage' = s.patternsByPackage
  /\ manifests' = s.manifests
  /\ refs' = s.refs
  /\ cache' = s.cache
  /\ threw' = s.threw
  /\ flat' = s.flat
  /\ resolutions' = s.resolutions
  /\ delayQueue' = s.delayQueue
  /\ fetchingPatterns' = s.fetchingPatterns
  /\ usedRegistries' = s.usedRegistries
  /\ delayedResolveQueue' = s.delayedResolveQueue
  /\ tasks' = s.tasks
  /\ log' = s.log

\* no pure function is being called
NoCall == ops = 0 /\ input = <<>> /\ output = <<>>

\* one more occurrence of the event in the log
bump(lg, ev) ==
  IF ev \in DOMAIN lg THEN [lg EXCEPT ![ev] = @ + 1] ELSE (ev :> 1) @@ lg

\* how often the event occurs in the log
count(lg, ev) == IF ev \in DOMAIN lg THEN lg[ev] ELSE 0

\* new PackageResolver(config, lockfile, resolutionMap)
InitResolver ==
  /\ patterns = <<>>
  /\ patternsByPackage = <<>>
  /\ manifests = <<>>
  /\ refs = <<>>
  /\ threw = FALSE
  /\ flat = FALSE
  /\ delayQueue = <<>>
  /\ fetchingPatterns = {}
  /\ usedRegistries = {}
  /\ delayedResolveQueue = <<>>
  /\ tasks = <<>>
  /\ log = <<>>

\* a Manifest as a resolver or a fetcher hands it over
newManifest(name, version, fresh) ==
  [name |-> name, version |-> version, ref |-> 0, remoteType |-> "tarball",
   fresh |-> fresh, prebuiltVariants |-> "none"]

\* new PackageReference(request, info, remote)
newReference(name, version) ==
  [patterns |-> <<>>, permissions |-> NoPermissions, remoteType |-> "tarball",
   resolved |-> resolvedUrl(name, version), dependencies |-> <<>>]

\* a lockfile entry as the parser yields it (the name is inferred from the key)
lockEntry(name, version) ==
  [name |-> <<>>, version |-> version, resolved |-> resolvedUrl(name, version),
   permissions |-> NoPermissions]

\* a variant of reduce that takes the highest version for 'latest'
reduceLatestIsHighest(versions, range) ==
  semverMaxSatisfying(versions, IF range = LATEST THEN STAR ELSE range)

\* PackageConstraintResolver.reduce(versions, range)
reduce(versions, range) ==
  IF range = LATEST
  THEN (IF versions = <<>> THEN None ELSE versions[Len(versions)])
  ELSE semverMaxSatisfying(versions, range)

\* PackageResolver.getHighestRangeVersionMatch(name, range, manifest) as an
\* identifier; 0 is null (no exotic match: the remotes here are tarballs)
getHighestRangeVersionMatch(s, name, range) ==
  IF name \notin DOMAIN s.patternsByPackage THEN 0
  ELSE LET pats == s.patternsByPackage[name]
           versionNumbers == [i \in 1..Len(pats) |-> s.manifests[s.patterns[pats[i]]].version]
           maxValidRange == semverMaxSatisfying(versionNumbers, range)
       IN  IF maxValidRange = None THEN 0
           ELSE s.patterns[pats[IndexOf(versionNumbers, maxValidRange)]]

\* PackageResolver.getExactVersionMatch(name, version, manifest) as an
\* identifier; 0 is null
getExactVersionMatch(s, name, version) ==
  IF name \notin DOMAIN s.patternsByPackage THEN 0
  ELSE LET pats == s.patternsByPackage[name]
           hits == {i \in 1..Len(pats) : s.manifests[s.patterns[pats[i]]].version = version}
       IN  IF hits = {} THEN 0
           ELSE s.patterns[pats[CHOOSE i \in hits : \A j \in hits : i <= j]]

\* getStrictResolvedPattern succeeds for every pattern the index lists
indexResolved(s, name) ==
  \A q \in Range(byPackage(s, name)) : q \in DOMAIN s.patterns

(* ------------------------------------------------------------------ *)
(* Spec: the operations of the resolver, called in any order           *)
(* ------------------------------------------------------------------ *)

Init ==
  /\ OtherIdle
  /\ InitResolver
  /\ NoCall
  /\ cache \in {<<>>, (PatC2 :> lockEntry(NameC, V105)),
                (PatC3 :> lockEntry(NameC, V110))}
  /\ resolutions = <<>>
  /\ aDep = PatC1
  /\ deps = <<>>
  /\ isFlat = FALSE
  /\ rootIdx = 0
  /\ phase = "idle"

\* one more operation, while the run has not failed
Step ==
  /\ ~threw
  /\ ops < MaxOps
  /\ ops' = ops + 1
  /\ UNCHANGED <<input, output, initVars, extraVars>>

\* the version the registry resolver finds for the pattern
found(p) == reduce(registryVersions(getName(p)), normalizePattern(p).range)

\* PackageRequest.find when no bound manifest of the package has the version
\* found: a new Manifest and PackageReference, ref.addPattern(pattern, info)
RequestResolve(p) ==
  /\ Step
  /\ indexResolved(Cur, getName(p))
  /\ getHighestRangeVersionMatch(Cur, getName(p), found(p)) = 0
  /\ LET m == Len(manifests) + 1
         r == Len(refs) + 1
         s0 == [Cur EXCEPT
                  !.manifests = Append(@, newManifest(getName(p), found(p), TRUE)),
                  !.refs = Append(@, newReference(getName(p), found(p)))]
         s1 == Reference_addPattern(s0, r, p, m)
     IN  Commit([s1 EXCEPT !.manifests[m].ref = r])

\* PackageRequest.find when a bound manifest has the version found, followed
\* by resolveToExistingVersion: ref.addPattern(pattern, resolved)
RequestAttach(p) ==
  /\ Step
  /\ indexResolved(Cur, getName(p))
  /\ LET m == getHighestRangeVersionMatch(Cur, getName(p), found(p))
     IN  /\ m # 0
         /\ manifests[m].ref # 0
         /\ Commit(Reference_addPattern(Cur, manifests[m].ref, p, m))

RemovePattern(p) ==
  /\ Step
  /\ p \in DOMAIN patterns
  /\ Commit(removePattern(Cur, p))

ReplacePattern(p, q) ==
  /\ Step
  /\ p \in DOMAIN patterns
  /\ getName(p) = getName(q)
  /\ Commit(replacePattern(Cur, p, q))

CollapseAllVersionsOfPackage(name, v) ==
  /\ Step
  /\ name \in DOMAIN patternsByPackage
  /\ Commit([collapseAllVersionsOfPackage(Cur, name, v)
               EXCEPT !.log = bump(@, <<"collapse", human(name, v)>>)])

OptimizeResolutions(name) ==
  /\ Step
  /\ name \in DOMAIN patternsByPackage
  /\ Commit([optimizeResolutions(Cur, name)
               EXCEPT !.log = bump(@, <<"optimize", name>>)])

\* updateManifest(ref, newPkg) with the manifest a fetcher read from the
\* package of the reference
UpdateManifest(r) ==
  /\ Step
  /\ LET first == refs[r].resolved
         s0 == [Cur EXCEPT
                  !.manifests = Append(@, newManifest(first[1], first[2], FALSE))]
     IN  Commit(updateManifest(s0, r, Len(manifests) + 1))

\* updateManifests([newPkg]) with a manifest that carries its _reference
UpdateManifests(r, name) ==
  /\ Step
  /\ LET s0 == [Cur EXCEPT
                  !.manifests = Append(@, [newManifest(name, refs[r].resolved[2], FALSE)
                                             EXCEPT !.ref = r])]
     IN  Commit(updateManifests(s0, Len(manifests) + 1))

\* resolveToResolution for a request whose pin is resolved
ResolveToResolution(p, resolution) ==
  /\ Step
  /\ resolution \in DOMAIN patterns
  /\ resolution # p
  /\ getName(resolution) = getName(p)
  /\ Commit(attachToResolution(Cur, p, resolution))

Next ==
  \/ \E p \in OpPatterns : RequestResolve(p)
  \/ \E p \in OpPatterns : RequestAttach(p)
  \/ \E p \in OpPatterns : RemovePattern(p)
  \/ \E p \in OpPatterns, q \in OpPatterns : ReplacePattern(p, q)
  \/ \E name \in OpNames, v \in Range(registryVersions(NameC)) :
       CollapseAllVersionsOfPackage(name, v)
  \/ \E name \in OpNames : OptimizeResolutions(name)
  \/ \E r \in 1..Len(refs) : UpdateManifest(r)
  \/ \E r \in 1..Len(refs), name \in OpNames : UpdateManifests(r, name)
  \/ \E p \in OpPatterns, q \in OpPatterns : ResolveToResolution(p, q)

Spec == Init /\ [][Next]_vars

(* ------------------------------------------------------------------ *)
(* find: the requests, the resolution map, the lockfile probe          *)
(* ------------------------------------------------------------------ *)

\* a DependencyRequestPattern; root requests carry no parentNames
Request(pattern, root, parentNames) ==
  [pattern |-> pattern, registry |-> NPM, optional |-> FALSE,
   root |-> root, parentNames |-> parentNames]

\* String(optional)
boolString(b) == IF b THEN <<"t", "r", "u", "e">> ELSE <<"f", "a", "l", "s", "e">>

\* `${req.registry}:${req.pattern}:${String(req.optional)}`
fetchKeyOf(req) ==
  req.registry \o <<":">> \o req.pattern \o <<":">> \o boolString(req.optional)

\* an entry of resolutionMap.resolutionsByPackage; the glob is a path of segments
Pin(glob, name, range) ==
  [name |-> name, range |-> range, globPattern |-> glob,
   pattern |-> name \o <<"@">> \o range]

GlobStar == <<"*", "*">>

\* minimatch(modulePath, globPattern) for the globs **/name and parent/name
minimatch(modulePath, glob) ==
  IF glob[1] = GlobStar
  THEN modulePath[Len(modulePath)] = glob[Len(glob)]
  ELSE modulePath = glob

\* ResolutionMap.find(reqPattern, parentNames): the pinned pattern, or None
resolutionMapFind(s, reqPattern, parentNames) ==
  LET name == getName(reqPattern)
      modulePath == Append(parentNames, name)
      hits == {i \in 1..Len(s.resolutions) :
                 /\ s.resolutions[i].name = name
                 /\ minimatch(modulePath, s.resolutions[i].globPattern)}
  IN  IF hits = {} THEN None
      ELSE s.resolutions[CHOOSE i \in hits : \A j \in hits : i <= j].pattern

\* a variant of the pin lookup that consults the resolution map in flat mode too
pinOfInFlatModeToo(s, req) ==
  IF req.root THEN None
  ELSE resolutionMapFind(s, req.pattern, req.parentNames)

\* the pin resolveToResolution finds for the request; None when it returns req
pinOf(s, req) ==
  IF req.root \/ s.flat THEN None
  ELSE resolutionMapFind(s, req.pattern, req.parentNames)

\* PackageResolver.resolveToResolution(req) for the request of task t
resolveToResolution(s, t) ==
  LET req == s.tasks[t].req
      resolution == pinOf(s, req)
  IN  IF resolution = None THEN s
      ELSE IF resolution \in DOMAIN s.patterns
      THEN [attachToResolution(s, req.pattern, resolution)
              EXCEPT !.log = bump(@, <<"attach", req.pattern>>)]
      ELSE [s EXCEPT !.delayQueue = IF Contains(@, t) THEN @ ELSE Append(@, t)]

\* a variant that treats an entry as outdated whenever version and range are
\* valid, whether or not the version satisfies the range
isLockfileEntryOutdatedNoSatisfies(version, range, hasVersion) ==
  /\ semverValidRange(range)
  /\ semverValid(version)
  /\ ~isExotic(range)
  /\ hasVersion

\* a variant that never finds an entry outdated
isLockfileEntryOutdatedNever(version, range, hasVersion) == FALSE

\* a variant that does not look at hasVersion
isLockfileEntryOutdatedNoHasVersion(version, range, hasVersion) ==
  /\ semverValidRange(range)
  /\ semverValid(version)
  /\ ~isExotic(range)
  /\ ~semverSatisfies(version, range)

\* PackageResolver.isLockfileEntryOutdated(version, range, hasVersion)
isLockfileEntryOutdated(version, range, hasVersion) ==
  /\ semverValidRange(range)
  /\ semverValid(version)
  /\ ~isExotic(range)
  /\ hasVersion
  /\ ~semverSatisfies(version, range)

\* a call of find: its request, the task that issued it (0: init), where it
\* stands, and the locals initialFetch, fresh and lockfileEntry (its version)
newTask(req, parent) ==
  [req |-> req, parent |-> parent, st |-> "fetching", initialFetch |-> FALSE,
   fresh |-> FALSE, lockfileEntry |-> None, fetched |-> FALSE, ref |-> 0]

\* PackageRequest.init()
requestInit(s, t) ==
  [s EXCEPT !.usedRegistries = @ \cup {s.tasks[t].req.registry},
            !.log = bump(@, <<"init", fetchKeyOf(s.tasks[t].req)>>)]

\* the lockfile probe of find, taken on the first fetch of a fetchKey
probe(s, t) ==
  LET req == s.tasks[t].req
      n == normalizePattern(req.pattern)
  IN  IF hasLocked(s.cache, req.pattern)
      THEN LET entry == getLocked(s.cache, req.pattern)
               s1 == [s EXCEPT !.cache = cacheAfterGetLocked(@, req.pattern),
                               !.tasks[t].lockfileEntry = entry.version]
           IN  IF isLockfileEntryOutdated(entry.version, n.range, n.hasVersion)
               THEN [removePattern(s1, req.pattern)
                       EXCEPT !.cache = Lockfile_removePattern(@, req.pattern),
                              !.tasks[t].fresh = TRUE]
               ELSE s1
      ELSE [s EXCEPT !.tasks[t].fresh = TRUE]

\* a variant of the fetchKey test that takes every fetch for the first
isInitialFetchAlways(s, req) == TRUE

\* !this.fetchingPatterns.has(fetchKey)
isInitialFetch(s, req) == fetchKeyOf(req) \notin s.fetchingPatterns

\* PackageResolver.find(initialReq), up to the point where request.find waits
\* for the version info; the call becomes task Len(tasks) + 1
find(s, req, parent) ==
  LET t == Len(s.tasks) + 1
      s0 == [s EXCEPT !.tasks = Append(@, newTask(req, parent))]
  IN  IF pinOf(s0, req) # None
      THEN [resolveToResolution(s0, t) EXCEPT !.tasks[t].st = "done"]
      ELSE LET fetchKey == fetchKeyOf(req)
               s1 == IF isInitialFetch(s0, req)
                     THEN requestInit(probe(
                            [s0 EXCEPT !.fetchingPatterns = @ \cup {fetchKey},
                                       !.tasks[t].initialFetch = TRUE,
                                       !.log = bump(@, <<"probe", fetchKey>>)], t), t)
                     ELSE s0
           IN  [s1 EXCEPT !.log = bump(@, <<"find", fetchKey>>)]

RECURSIVE findAllFrom(_, _, _, _, _)
\* the child requests of PackageRequest.find, issued in order
findAllFrom(s, pats, i, parentNames, parent) ==
  IF i > Len(pats) THEN s
  ELSE findAllFrom(find(s, Request(pats[i], FALSE, parentNames), parent),
                   pats, i + 1, parentNames, parent)

\* PackageRequest.find({fresh}) once the version info is there: from the
\* lockfile entry when there is one, from the registry otherwise
requestFind(s, t, registryDeps) ==
  LET req == s.tasks[t].req
      n == normalizePattern(req.pattern)
      locked == hasLocked(s.cache, req.pattern)
      version == IF locked THEN getLocked(s.cache, req.pattern).version
                 ELSE reduce(registryVersions(n.name), n.range)
      fresh == s.tasks[t].fresh
      m == Len(s.manifests) + 1
      r == Len(s.refs) + 1
      s0 == [s EXCEPT !.cache = cacheAfterGetLocked(@, req.pattern),
                      !.tasks[t].fetched = ~locked,
                      !.log = IF locked THEN @ ELSE bump(@, <<"fetch", req.pattern>>)]
      solvedRange == IF semverValidRange(n.range) THEN version ELSE n.range
  IN  IF version = None \/ ~indexResolved(s0, n.name)
      THEN [s0 EXCEPT !.threw = TRUE]
      ELSE LET s1 == [s0 EXCEPT !.manifests = Append(@, newManifest(n.name, version, fresh))]
               resolved == IF ~fresh
                           THEN getExactVersionMatch(s1, n.name, solvedRange)
                           ELSE getHighestRangeVersionMatch(s1, n.name, solvedRange)
           IN  IF resolved # 0
               THEN [s1 EXCEPT !.delayedResolveQueue = Append(@, <<t, m>>),
                               !.tasks[t].st = "done"]
               ELSE LET s2 == [s1 EXCEPT !.refs = Append(@, newReference(n.name, version))]
                        s3 == Reference_addPattern(s2, r, req.pattern, m)
                        s4 == [s3 EXCEPT !.manifests[m].ref = r,
                                         !.tasks[t].ref = r,
                                         !.tasks[t].st = "children"]
                        parentNames == IF req.root THEN <<n.name>>
                                       ELSE Append(req.parentNames, n.name)
                    IN  findAllFrom(s4, registryDeps, 1, parentNames, t)

\* PackageRequest.find({fresh}) when the registry request for the version info
\* of a required request fails: the error propagates to the caller of find
requestFindRejects(s, t) ==
  [s EXCEPT !.log = bump(@, <<"fetch", s.tasks[t].req.pattern>>),
            !.threw = TRUE]

\* the calls of find issued by task t
childrenOf(s, t) == {u \in 1..Len(s.tasks) : s.tasks[u].parent = t}

\* PackageRequest.find after its child promises: ref.addDependencies(deps)
requestFinish(s, t, registryDeps) ==
  [s EXCEPT !.refs[s.tasks[t].ref].dependencies = @ \o registryDeps,
            !.tasks[t].st = "done"]

\* PackageRequest.resolveToExistingVersion(info) for the request of task t
resolveToExistingVersion(s, t, info) ==
  LET req == s.tasks[t].req
      n == normalizePattern(req.pattern)
      solvedRange == IF semverValidRange(n.range) THEN s.manifests[info].version
                     ELSE n.range
  IN  IF ~indexResolved(s, n.name) THEN [s EXCEPT !.threw = TRUE]
      ELSE LET resolved == getHighestRangeVersionMatch(s, n.name, solvedRange)
           IN  IF resolved = 0 \/ s.manifests[resolved].ref = 0
               THEN [s EXCEPT !.threw = TRUE]
               ELSE Reference_addPattern(s, s.manifests[resolved].ref, req.pattern, resolved)

RECURSIVE existingFrom(_, _)
existingFrom(s, i) ==
  IF s.threw \/ i > Len(s.delayedResolveQueue) THEN s
  ELSE existingFrom(
         [resolveToExistingVersion(s, s.delayedResolveQueue[i][1],
                                   s.delayedResolveQueue[i][2])
            EXCEPT !.log = bump(@, <<"existing",
                                     s.tasks[s.delayedResolveQueue[i][1]].req.pattern>>)],
         i + 1)

\* PackageResolver.resolvePackagesWithExistingVersions()
resolvePackagesWithExistingVersions(s) == existingFrom(s, 1)

RECURSIVE delayFrom(_, _)
\* init: for (const req of this.resolutionMap.delayQueue) resolveToResolution(req)
delayFrom(s, i) ==
  IF s.threw \/ i > Len(s.delayQueue) THEN s
  ELSE delayFrom([resolveToResolution(s, s.delayQueue[i])
                    EXCEPT !.log = bump(@, <<"redo", s.tasks[s.delayQueue[i]].req.pattern>>)],
                 i + 1)

RECURSIVE optimizeFrom(_, _, _)
\* init: for (const dep of deps) optimizeResolutions(normalizePattern(dep.pattern).name)
optimizeFrom(s, ds, i) ==
  IF s.threw \/ i > Len(ds) THEN s
  ELSE optimizeFrom([optimizeResolutions(s, getName(ds[i].pattern))
                       EXCEPT !.log = bump(@, <<"optimize", getName(ds[i].pattern)>>)],
                    ds, i + 1)

(* ------------------------------------------------------------------ *)
(* SpecRun: init(deps, {isFlat}) and the calls of find it awaits        *)
(* ------------------------------------------------------------------ *)

\* the lockfiles a run starts from: none, c@~1.0.1 locked to a version in its
\* range, c@~1.0.1 locked outside its range, c@^1.0.0 locked to an old version,
\* and a lockfile for every pattern of the graph
LockfileChoices ==
  { <<>>,
    (PatC2 :> lockEntry(NameC, V105)),
    (PatC2 :> lockEntry(NameC, V100)),
    (PatC1 :> lockEntry(NameC, V100)),
    (PatA :> lockEntry(NameA, V100)) @@ (PatB :> lockEntry(NameB, V100))
      @@ (PatC1 :> lockEntry(NameC, V110)) @@ (PatC2 :> lockEntry(NameC, V105))
      @@ (PatD :> lockEntry(NameD, V100)) }

\* the resolutions field of the root manifest: none, **/c or a/c pinned to 1.0.0
ResolutionChoices ==
  { <<>>,
    <<Pin(<<GlobStar, NameC>>, NameC, V100)>>,
    <<Pin(<<NameA, NameC>>, NameC, V100)>> }

RootA == Request(PatA, TRUE, <<>>)
RootB == Request(PatB, TRUE, <<>>)
RootPin == Request(PatCPin, TRUE, <<>>)

\* the root requests: a and b in either order, the pinned pattern before or
\* after them when the root manifest has resolutions
RootChoices(res) ==
  IF res = <<>> THEN {<<RootA, RootB>>, <<RootB, RootA>>}
  ELSE {<<RootPin, RootA, RootB>>, <<RootPin, RootB, RootA>>,
        <<RootA, RootB, RootPin>>, <<RootB, RootA, RootPin>>}

InitRun ==
  /\ OtherIdle
  /\ InitResolver
  /\ NoCall
  /\ aDep \in {PatC1, PatC2}
  /\ resolutions \in ResolutionChoices
  /\ cache \in LockfileChoices
  /\ deps \in RootChoices(resolutions)
  /\ isFlat \in BOOLEAN
  /\ rootIdx = 0
  /\ phase = "idle"

\* every call of find made so far has returned
allFindsReturned(ts) == \A t \in 1..Len(ts) : ts[t].st = "done"

\* a variant that only asks that every root find was started
findsStarted(ts, idx, ds) == idx = Len(ds)

\* the for loop of init is over: find was awaited for every root request
findsComplete(ts, idx, ds) == idx = Len(ds) /\ allFindsReturned(ts)

\* a variant of the await in which a rejected find lets the loop go on
awaitedOrRejected(thrown, ts) == thrown \/ allFindsReturned(ts)

\* init: await this.find(req): the loop goes on once the find it awaits has
\* returned, and not at all once it has rejected
awaited(thrown, ts) == ~thrown /\ allFindsReturned(ts)

\* init: this.flat = Boolean(isFlat)
InitCall ==
  /\ phase = "idle"
  /\ Commit([Cur EXCEPT !.flat = isFlat])
  /\ phase' = "find"
  /\ UNCHANGED <<extraVars, callVars, aDep, deps, isFlat, rootIdx>>

\* init: await this.find(req) for the next root request
RootFind ==
  /\ phase = "find"
  /\ rootIdx < Len(deps)
  /\ awaited(threw, tasks)
  /\ Commit(find(Cur, deps[rootIdx + 1], 0))
  /\ rootIdx' = rootIdx + 1
  /\ UNCHANGED <<extraVars, callVars, aDep, deps, isFlat, phase>>

\* the version info of task t arrives: request.find goes on
VersionInfo(t) ==
  /\ ~threw
  /\ tasks[t].st = "fetching"
  /\ Commit(requestFind(Cur, t, dependenciesOf(getName(tasks[t].req.pattern), aDep)))
  /\ UNCHANGED <<extraVars, callVars, initVars>>

\* the registry request of task t fails: request.find rejects, and with it
\* every find that awaits it, up to the one init awaits
VersionInfoFails(t) ==
  /\ ~threw
  /\ tasks[t].st = "fetching"
  /\ ~hasLocked(cache, tasks[t].req.pattern)
  /\ Commit(requestFindRejects(Cur, t))
  /\ UNCHANGED <<extraVars, callVars, initVars>>

\* the child finds of task t have returned: request.find returns
ChildrenDone(t) ==
  /\ ~threw
  /\ tasks[t].st = "children"
  /\ \A u \in childrenOf(Cur, t) : tasks[u].st = "done"
  /\ Commit(requestFinish(Cur, t, dependenciesOf(getName(tasks[t].req.pattern), aDep)))
  /\ UNCHANGED <<extraVars, callVars, initVars>>

\* init: this.resolvePackagesWithExistingVersions()
ResolveExisting ==
  /\ phase = "find"
  /\ ~threw
  /\ findsComplete(tasks, rootIdx, deps)
  /\ Commit(resolvePackagesWithExistingVersions(Cur))
  /\ phase' = "delay"
  /\ UNCHANGED <<extraVars, callVars, aDep, deps, isFlat, rootIdx>>

\* init: the loop over resolutionMap.delayQueue
DrainDelayQueue ==
  /\ phase = "delay"
  /\ ~threw
  /\ Commit(delayFrom(Cur, 1))
  /\ phase' = "flat"
  /\ UNCHANGED <<extraVars, callVars, aDep, deps, isFlat, rootIdx>>

\* init: if (isFlat) optimizeResolutions for the name of every root request
Flatten ==
  /\ phase = "flat"
  /\ ~threw
  /\ Commit(IF isFlat THEN optimizeFrom(Cur, deps, 1) ELSE Cur)
  /\ phase' = "done"
  /\ UNCHANGED <<extraVars, callVars, aDep, deps, isFlat, rootIdx>>

NextRun ==
  \/ InitCall
  \/ RootFind
  \/ \E t \in 1..Len(tasks) : VersionInfo(t)
  \/ \E t \in 1..Len(tasks) : VersionInfoFails(t)
  \/ \E t \in 1..Len(tasks) : ChildrenDone(t)
  \/ ResolveExisting
  \/ DrainDelayQueue
  \/ Flatten

SpecRun == InitRun /\ [][NextRun]_vars

(* ------------------------------------------------------------------ *)
(* SpecOutdated: isLockfileEntryOutdated on its own                    *)
(* ------------------------------------------------------------------ *)

V200 == <<"2", ".", "0", ".", "0">>

\* locked versions: four valid ones, a tag and a partial version
OutdatedVersions == {V100, V105, V110, V200, LATEST, <<"1", ".", "0">>}

\* ranges: caret, tilde, exact, *, a tag, a user/repo shorthand, a file: path
OutdatedRanges ==
  { <<"^", "1", ".", "0", ".", "0">>, <<"~", "1", ".", "0", ".", "1">>,
    <<"~", "1", ".", "1", ".", "0">>, V100, V200, STAR, LATEST,
    <<"u", "/", "r">>, <<"f", "i", "l", "e", ":", "x">> }

InitOutdated ==
  /\ OtherIdle
  /\ InitResolver
  /\ cache = <<>>
  /\ resolutions = <<>>
  /\ aDep = PatC1
  /\ deps = <<>>
  /\ isFlat = FALSE
  /\ rootIdx = 0
  /\ phase = "idle"
  /\ ops = 0
  /\ output = <<>>
  /\ input \in OutdatedVersions \X OutdatedRanges \X BOOLEAN

IsLockfileEntryOutdated ==
  /\ output = <<>>
  /\ output' = <<isLockfileEntryOutdated(input[1], input[2], input[3])>>
  /\ UNCHANGED <<resolverVars, ops, input, findVars, initVars, extraVars>>

NextOutdated == IsLockfileEntryOutdated

SpecOutdated == InitOutdated /\ [][NextOutdated]_vars

(* ------------------------------------------------------------------ *)
(* Claims on the pattern registry                                      *)
(* ------------------------------------------------------------------ *)

\* C1: after any sequence of resolver operations that did not throw, every
\* pattern p that is a key of resolver.patterns is in the patterns list of
\* resolver.patterns[p]._reference.
C1_PatternListedByItsReference ==
  ~threw =>
    \A p \in DOMAIN patterns :
      LET r == manifests[patterns[p]].ref
      IN  r # 0 /\ Contains(refs[r].patterns, p)

\* C2: after any sequence of resolver operations that did not throw, for every
\* Reference r and every pattern p in r.patterns, resolver.patterns[p] exists
\* and its _reference is r.
C2_ReferencePatternsAreBoundToIt ==
  ~threw =>
    \A r \in 1..Len(refs) :
      \A p \in Range(refs[r].patterns) :
        p \in DOMAIN patterns /\ manifests[patterns[p]].ref = r

\* C3: after any sequence of operations that did not throw, for every package
\* name n the list patternsByPackage[n] holds exactly the patterns that are
\* keys of resolver.patterns and whose name is n.
C3_IndexHoldsExactlyTheBoundPatterns ==
  ~threw =>
    \A n \in OpNames \cup DOMAIN patternsByPackage :
      Range(byPackage(Cur, n)) = {p \in DOMAIN patterns : getName(p) = n}

(* ------------------------------------------------------------------ *)
(* Claims on find and the lockfile                                     *)
(* ------------------------------------------------------------------ *)

\* the calls of find a step starts
started(ts, ts2) == (Len(ts) + 1)..Len(ts2)

\* the lockfile entry of the pattern has a version in the range of the pattern
lockedInRange(c, p) ==
  hasLocked(c, p) /\ semverSatisfies(c[p].version, normalizePattern(p).range)

\* the lockfile entry of the pattern has a version outside the range
lockedOutOfRange(c, p) ==
  hasLocked(c, p) /\ ~semverSatisfies(c[p].version, normalizePattern(p).range)

\* C4: when find probes a pattern whose lockfile entry has a version in the
\* range of the pattern, the entry stays in the lockfile with its version, the
\* pattern stays bound if it was, and the request is not fresh; when the
\* version info of such a request arrives no registry fetch was made for it.
C4_ValidEntryIsReused ==
  [][ /\ \A t \in started(tasks, tasks') :
           LET p == tasks'[t].req.pattern
           IN  (tasks'[t].initialFetch /\ lockedInRange(cache, p)) =>
                 /\ hasLocked(cache', p)
                 /\ cache'[p].version = cache[p].version
                 /\ (p \in DOMAIN patterns => p \in DOMAIN patterns')
                 /\ ~tasks'[t].fresh
      /\ \A t \in 1..Len(tasks) :
           LET p == tasks[t].req.pattern
           IN  (/\ tasks[t].st = "fetching" /\ tasks'[t].st # "fetching"
                /\ tasks[t].initialFetch
                /\ tasks[t].lockfileEntry # None
                /\ semverSatisfies(tasks[t].lockfileEntry, normalizePattern(p).range)) =>
                 /\ ~tasks'[t].fetched
                 /\ count(log', <<"fetch", p>>) = count(log, <<"fetch", p>>)
    ]_vars

\* C4 witness: a request that found a valid entry has its version info, taken
\* from the lockfile, and the entry is still there
C4_Witness ==
  \E t \in 1..Len(tasks) :
    /\ tasks[t].initialFetch
    /\ tasks[t].lockfileEntry # None
    /\ ~tasks[t].fresh
    /\ tasks[t].st # "fetching"
    /\ ~tasks[t].fetched
    /\ hasLocked(cache, tasks[t].req.pattern)

\* C5: when find probes a pattern whose lockfile entry has a version outside
\* the range of the pattern, the pattern is no longer bound and the entry is
\* no longer in the lockfile afterwards, and the request is fresh; when the
\* lockfile has no entry, the request is fresh, the binding of the pattern is
\* as before and the lockfile still has no entry (a root find changes neither
\* map at all).
C5_StaleEntryIsDropped ==
  [][ \A t \in started(tasks, tasks') :
        LET p == tasks'[t].req.pattern
        IN  /\ (tasks'[t].initialFetch /\ lockedOutOfRange(cache, p)) =>
                 /\ p \notin DOMAIN patterns'
                 /\ ~hasLocked(cache', p)
                 /\ tasks'[t].fresh
            /\ (tasks'[t].initialFetch /\ ~hasLocked(cache, p)) =>
                 /\ tasks'[t].fresh
                 /\ ~hasLocked(cache', p)
                 /\ (p \in DOMAIN patterns <=> p \in DOMAIN patterns')
                 /\ (p \in DOMAIN patterns => patterns'[p] = patterns[p])
                 /\ (tasks'[t].parent = 0 => patterns' = patterns /\ cache' = cache)
    ]_vars

\* C5 witness: a pattern that a pin had bound was probed with a stale entry
\* (it is fresh, the entry is gone), and a root request was probed with no
\* entry at all
C5_Witness ==
  /\ \E t \in 1..Len(tasks) :
       /\ tasks[t].initialFetch
       /\ tasks[t].lockfileEntry # None
       /\ tasks[t].fresh
       /\ count(log, <<"attach", tasks[t].req.pattern>>) > 0
       /\ ~hasLocked(cache, tasks[t].req.pattern)
  /\ \E t \in 1..Len(tasks) :
       /\ tasks[t].initialFetch
       /\ tasks[t].lockfileEntry = None
       /\ tasks[t].fresh
       /\ tasks[t].parent = 0

\* C6: isLockfileEntryOutdated answers true exactly when the range is a valid
\* range, the version a valid version, the range not exotic, the pattern had
\* an explicit range and the version does not satisfy the range.
C6_OutdatedExactly ==
  output # <<>> =>
    (output[1] <=>
       /\ semverValidRange(input[2])
       /\ semverValid(input[1])
       /\ ~isExotic(input[2])
       /\ input[3]
       /\ ~semverSatisfies(input[1], input[2]))

\* C6 witness: an entry with a valid version outside an explicit valid range
\* was found outdated
C6_Witness ==
  /\ output = <<TRUE>>
  /\ input[3]
  /\ semverValid(input[1])
  /\ semverValidRange(input[2])

\* C7 (as stated): for every fetchKey the lockfile probe, the request
\* initialisation and request.find are each performed at most once.
C7_WorkOncePerFetchKey ==
  \A e \in DOMAIN log : e[1] \in {"probe", "init", "find"} => log[e] <= 1

\* C7 (amended): for every fetchKey the lockfile probe and the request
\* initialisation are each performed at most once, however often find is
\* called with it.
C7_ProbeOncePerFetchKey ==
  \A e \in DOMAIN log : e[1] \in {"probe", "init"} => log[e] <= 1

\* C7 witness: find was called twice with one fetchKey, once through the cycle
\* a -> d -> a, and probed and initialised once
C7_Witness ==
  count(log, <<"find", fetchKeyOf(RootA)>>) >= 2
    /\ count(log, <<"probe", fetchKeyOf(RootA)>>) = 1
    /\ count(log, <<"init", fetchKeyOf(RootA)>>) = 1

RECURSIVE sumOver(_, _)
sumOver(lg, S) ==
  IF S = {} THEN 0
  ELSE LET e == CHOOSE x \in S : TRUE IN lg[e] + sumOver(lg, S \ {e})

\* how many events of the kind the log holds
total(lg, kind) == sumOver(lg, {e \in DOMAIN lg : e[1] = kind})

\* C8: init leaves its find loop only for the existing-version pass and only
\* when every find, root and nested, has returned; the existing-version pass
\* handles every queued request before any delayed request is re-evaluated;
\* the delayQueue is re-evaluated before any optimizeResolutions call.
C8_PhasesInOrder ==
  [][ /\ (phase = "find" /\ phase' # "find") =>
           phase' = "delay" /\ rootIdx = Len(deps) /\ allFindsReturned(tasks)
      /\ total(log', "existing") > total(log, "existing") =>
           /\ phase = "find" /\ rootIdx = Len(deps) /\ allFindsReturned(tasks)
           /\ total(log, "redo") = 0 /\ total(log, "optimize") = 0
           /\ total(log', "existing") = Len(delayedResolveQueue)
      /\ total(log', "redo") > total(log, "redo") =>
           /\ phase = "delay"
           /\ total(log, "existing") = Len(delayedResolveQueue)
           /\ total(log, "optimize") = 0
           /\ total(log', "redo") = Len(delayQueue)
      /\ total(log', "optimize") > total(log, "optimize") =>
           /\ phase = "flat"
           /\ total(log, "existing") = Len(delayedResolveQueue)
           /\ total(log, "redo") = Len(delayQueue)
    ]_vars

\* C8 witness: init is over, the existing-version pass handled a request, and
\* the delayQueue was re-evaluated or the packages were optimised
C8_Witness ==
  /\ phase = "done"
  /\ total(log, "existing") > 0
  /\ (total(log, "redo") > 0 \/ total(log, "optimize") > 0)

(* ------------------------------------------------------------------ *)
(* Claims on flat mode                                                 *)
(* ------------------------------------------------------------------ *)

\* C9: when optimizeResolutions(name) collapses the package, every pattern it
\* binds to another manifest has a range that the version of that manifest
\* satisfies.
C9_CollapsedRangesSatisfied ==
  [][ \A name \in OpNames :
        (count(log', <<"optimize", name>>) > count(log, <<"optimize", name>>) /\ ~threw') =>
          \A p \in DOMAIN patterns' :
            (p \in DOMAIN patterns /\ patterns'[p] # patterns[p]) =>
              semverSatisfies(manifests'[patterns'[p]].version,
                              normalizePattern(p).range)
    ]_vars

\* the versions of the package that were discovered
discovered(name) ==
  {manifests[patterns[p]].version : p \in {q \in DOMAIN patterns : getName(q) = name}}

\* the highest of the versions
highest(vs) ==
  CHOOSE v \in vs : \A w \in vs : ~versionLess(parseVersion(v), parseVersion(w))

\* C10: after a flat init with no lockfile, when a requests c@^1.0.0 and b
\* requests c@~1.0.1 and a discovered version of c satisfies both ranges, both
\* patterns are bound to the highest such version.
C10_FlatResolvesToOneVersion ==
  LET both == {v \in discovered(NameC) :
                 /\ semverSatisfies(v, normalizePattern(PatC1).range)
                 /\ semverSatisfies(v, normalizePattern(PatC2).range)}
  IN  (/\ phase = "done" /\ isFlat /\ ~threw /\ cache = <<>>
       /\ PatC1 \in DOMAIN patterns /\ PatC2 \in DOMAIN patterns
       /\ both # {}) =>
        /\ manifests[patterns[PatC1]].version = highest(both)
        /\ manifests[patterns[PatC2]].version = highest(both)

(* ------------------------------------------------------------------ *)
(* Claims on collapsing and on resolution pins                         *)
(* ------------------------------------------------------------------ *)

\* the patterns of the list and the patterns attached to their references:
\* listed by the reference and bound to a manifest of that reference
attachedTo(list) ==
  Range(list) \cup
    UNION {{x \in Range(refs[manifests[patterns[p]].ref].patterns) :
              /\ x \in DOMAIN patterns
              /\ manifests[patterns[x]].ref = manifests[patterns[p]].ref} :
             p \in {q \in Range(list) : q \in DOMAIN patterns /\ manifests[patterns[q]].ref # 0}}

\* C11: after collapseAllVersionsOfPackage(name, v), which hands the deduped
\* patterns of the package to collapsePackageVersions, every listed pattern
\* and every pattern attached to the reference of a listed pattern is bound to
\* the manifest of the first listed pattern with version v, and every pattern
\* bound before is still bound; when no listed pattern has version v the call
\* fails.
C11_CollapseBindsAllToTarget ==
  [][ \A name \in OpNames : \A v \in Range(registryVersions(NameC)) :
        count(log', <<"collapse", human(name, v)>>)
            > count(log, <<"collapse", human(name, v)>>) =>
          LET list == dedupePatterns(Cur, byPackage(Cur, name))
              hits == {i \in 1..Len(list) :
                         /\ list[i] \in DOMAIN patterns
                         /\ manifests[patterns[list[i]]].version = v}
          IN  IF hits = {} THEN threw'
              ELSE ~threw' =>
                     LET first == CHOOSE i \in hits : \A j \in hits : i <= j
                     IN  /\ \A p \in attachedTo(list) :
                              p \in DOMAIN patterns' /\ patterns'[p] = patterns[list[first]]
                         /\ DOMAIN patterns \subseteq DOMAIN patterns'
    ]_vars

(* ------------------------------------------------------------------ *)
(* SpecPin: resolveToResolution called on a resolver whose patterns     *)
(* are being resolved                                                   *)
(* ------------------------------------------------------------------ *)

\* what resolveToResolution(req) returns: the request, or null
resolveToResolutionReturns(s, req) ==
  IF pinOf(s, req) = None THEN <<"req">> ELSE <<"null">>

\* the requests handed to resolveToResolution
PinRequests ==
  {Request(PatC1, FALSE, <<NameA>>), Request(PatC1, FALSE, <<NameB>>),
   Request(PatC2, FALSE, <<NameB>>), Request(PatD, FALSE, <<NameA>>),
   Request(PatC1, TRUE, <<>>)}

\* the patterns resolved between the calls
PinResolved == {PatCPin, PatC1, PatC3}

\* lockfiles: empty, one that agrees with the pin and one that does not
PinLockfiles ==
  {<<>>, (PatC1 :> lockEntry(NameC, V100)), (PatC1 :> lockEntry(NameC, V110))}

\* the resolver as init leaves it once it has set this.flat, before any find
InitPin ==
  /\ OtherIdle
  /\ patterns = <<>>
  /\ patternsByPackage = <<>>
  /\ manifests = <<>>
  /\ refs = <<>>
  /\ threw = FALSE
  /\ delayQueue = <<>>
  /\ fetchingPatterns = {}
  /\ usedRegistries = {}
  /\ delayedResolveQueue = <<>>
  /\ tasks = <<>>
  /\ log = <<>>
  /\ NoCall
  /\ cache \in PinLockfiles
  /\ resolutions \in ResolutionChoices
  /\ flat \in BOOLEAN
  /\ aDep = PatC1
  /\ deps = <<>>
  /\ isFlat = FALSE
  /\ rootIdx = 0
  /\ phase = "idle"

\* a call resolveToResolution(req); the request object is task Len(tasks) + 1
ResolveToResolutionCall(req) ==
  /\ ~threw
  /\ ops < MaxOps
  /\ ops' = ops + 1
  /\ LET t == Len(tasks) + 1
         s0 == [Cur EXCEPT !.tasks = Append(@, newTask(req, 0))]
     IN  /\ Commit(resolveToResolution(s0, t))
         /\ input' = <<t>>
         /\ output' = resolveToResolutionReturns(s0, req)
  /\ UNCHANGED <<initVars, extraVars>>

NextPin ==
  \/ \E p \in PinResolved : RequestResolve(p)
  \/ \E req \in PinRequests : ResolveToResolutionCall(req)

SpecPin == InitPin /\ [][NextPin]_vars

\* the resolver state resolveToResolution can touch is as before
pinStateUnchanged ==
  UNCHANGED <<patterns, patternsByPackage, manifests, refs, cache, delayQueue, threw>>

\* C12: a call of resolveToResolution returns null exactly when, outside flat
\* mode, the resolution map finds a pin for the request (it is consulted for
\* requests that carry parentNames). On a match whose target is in patterns
\* the request's pattern is bound to the target's manifest and listed by its
\* Reference, and the delay queue is as before; on a match whose target is not
\* in patterns the request is on the delay queue and patterns is as before.
\* Without a match, or in flat mode, the request is returned and nothing
\* changes.
C12_PinAttachesOrDelays ==
  [][ Len(tasks') = Len(tasks) + 1 =>
        LET t == Len(tasks')
            req == tasks'[t].req
            pin == IF req.root THEN None
                   ELSE resolutionMapFind(Cur, req.pattern, req.parentNames)
        IN  IF flat \/ pin = None
            THEN output' = <<"req">> /\ pinStateUnchanged
            ELSE /\ output' = <<"null">>
                 /\ IF pin \in DOMAIN patterns
                    THEN /\ ~threw'
                         /\ req.pattern \in DOMAIN patterns'
                         /\ patterns'[req.pattern] = patterns[pin]
                         /\ Contains(refs'[manifests[patterns[pin]].ref].patterns,
                                     req.pattern)
                         /\ delayQueue' = delayQueue
                    ELSE /\ Contains(delayQueue', t)
                         /\ patterns' = patterns
    ]_vars

\* C12 witness: one pinned request was delayed because its target was not
\* resolved yet, and a later one was attached to the resolved target, whose
\* lockfile entry disagreed and was dropped
C12_Witness ==
  /\ ~threw
  /\ output = <<"null">>
  /\ delayQueue # <<>>
  /\ count(log, <<"attach", PatC1>>) > 0
  /\ PatC1 \in DOMAIN patterns
  /\ manifests[patterns[PatC1]].version = V100
  /\ ~hasLocked(cache, PatC1)
  /\ resolutions # <<>>

(* ------------------------------------------------------------------ *)
(* SpecReference: one PackageReference and the calls that mark it       *)
(* ------------------------------------------------------------------ *)

\* the most requests and addOptional calls one Reference receives
MaxRefCalls == 5

\* this.level = Infinity: above every parentNames length
Infinity == 1000

Min(a, b) == IF a <= b THEN a ELSE b

\* a variant of addRequest that takes the level of the latest request
addRequestLatestLevel(ref, request) ==
  [ref EXCEPT !.requests = Append(@, request),
              !.level = Len(request.parentNames)]

\* PackageReference.addRequest(request)
addRequest(ref, request) ==
  [ref EXCEPT !.requests = Append(@, request),
              !.level = Min(@, Len(request.parentNames))]

\* a variant of addOptional in which the latest call decides
addOptionalLatestWins(ref, optional) ==
  [ref EXCEPT !.optional = <<optional>>]

\* PackageReference.addOptional(optional); <<>> is the uninitialised null
addOptional(ref, optional) ==
  IF ref.optional = <<>> THEN [ref EXCEPT !.optional = <<optional>>]
  ELSE IF ~optional THEN [ref EXCEPT !.optional = <<FALSE>>]
  ELSE ref

\* new PackageReference(request, info, remote), with the fields of the
\* constructor that addRequest and addOptional work on
PackageReference(request, name, version) ==
  addRequest([requests |-> <<>>, optional |-> <<>>, level |-> Infinity]
               @@ newReference(name, version),
             request)

\* the requests that reach one package at different depths
RefRequests ==
  {Request(PatC1, TRUE, <<>>), Request(PatC1, FALSE, <<NameA>>),
   Request(PatC2, FALSE, <<NameA, NameB>>),
   Request(PatC3, FALSE, <<NameD, NameA, NameB>>)}

InitReference ==
  /\ OtherIdle
  /\ patterns = <<>>
  /\ patternsByPackage = <<>>
  /\ manifests = <<>>
  /\ \E request \in RefRequests : refs = <<PackageReference(request, NameC, V110)>>
  /\ cache = <<>>
  /\ threw = FALSE
  /\ flat = FALSE
  /\ resolutions = <<>>
  /\ delayQueue = <<>>
  /\ fetchingPatterns = {}
  /\ usedRegistries = {}
  /\ delayedResolveQueue = <<>>
  /\ tasks = <<>>
  /\ log = <<>>
  /\ NoCall
  /\ aDep = PatC1
  /\ deps = <<>>
  /\ isFlat = FALSE
  /\ rootIdx = 0
  /\ phase = "idle"

\* one more call on the Reference
RefStep ==
  /\ ops < MaxRefCalls
  /\ ops' = ops + 1
  /\ UNCHANGED <<patterns, patternsByPackage, manifests, cache, threw,
                 input, output, flat, resolutions, delayQueue, fetchingPatterns,
                 usedRegistries, delayedResolveQueue, tasks, initVars, extraVars>>

AddRequest(request) ==
  /\ RefStep
  /\ refs' = [refs EXCEPT ![1] = addRequest(@, request)]
  /\ UNCHANGED log

AddOptional(optional) ==
  /\ RefStep
  /\ refs' = [refs EXCEPT ![1] = addOptional(@, optional)]
  /\ log' = bump(log, <<"addOptional", boolString(optional)>>)

NextReference ==
  \/ \E request \in RefRequests : AddRequest(request)
  \/ \E optional \in BOOLEAN : AddOptional(optional)

SpecReference == InitReference /\ [][NextReference]_vars

\* C13: once addOptional has been called, optional is false exactly when some
\* call passed false, and a Reference whose optional is false keeps it false
C13_RequiredIffSomeCallRequired ==
  [][ /\ total(log', "addOptional") > 0 =>
           (refs'[1].optional = <<FALSE>>
              <=> count(log', <<"addOptional", boolString(FALSE)>>) > 0)
      /\ refs[1].optional = <<FALSE>> => refs'[1].optional = <<FALSE>>
    ]_vars

\* C13 witness: calls with true came before and after a call with false, and
\* the Reference is required
C13_Witness ==
  /\ count(log, <<"addOptional", boolString(TRUE)>>) >= 2
  /\ count(log, <<"addOptional", boolString(FALSE)>>) >= 1
  /\ refs[1].optional = <<FALSE>>

\* the least parentNames length over the requests of the Reference
minLevel(ref) ==
  CHOOSE n \in {Len(ref.requests[i].parentNames) : i \in 1..Len(ref.requests)} :
    \A i \in 1..Len(ref.requests) : n <= Len(ref.requests[i].parentNames)

\* C14: from construction on, the level of a Reference is the least
\* parentNames length over the requests attached to it, and no call raises it
C14_LevelIsLeastDepth ==
  /\ [](refs[1].level = minLevel(refs[1]))
  /\ [][refs'[1].level <= refs[1].level]_vars

\* C14 witness: a Reference built by a deep request, then reached by a
\* shallower one and by a deeper one again, stands at the shallow level
C14_Witness ==
  /\ Len(refs[1].requests) >= 3
  /\ Len(refs[1].requests[1].parentNames) = 2
  /\ Len(refs[1].requests[2].parentNames) = 1
  /\ Len(refs[1].requests[3].parentNames) = 3
  /\ refs[1].level = 1

(* ------------------------------------------------------------------ *)
(* SpecReduce: PackageConstraintResolver.reduce on its own             *)
(* ------------------------------------------------------------------ *)

\* the longest list of versions handed to reduce
MaxVersions == 3

\* the lists of versions of at most n elements, in any order
RECURSIVE VersionLists(_)
VersionLists(n) ==
  IF n = 0 THEN {<<>>}
  ELSE LET shorter == VersionLists(n - 1)
       IN  shorter \cup {Append(l, v) : l \in shorter, v \in {V100, V105, V110, V200}}

ReduceRanges ==
  { LATEST, STAR, V100, normalizePattern(PatC1).range,
    normalizePattern(PatC2).range, normalizePattern(PatC3).range,
    <<"^", "3", ".", "0", ".", "0">> }

InitReduce ==
  /\ OtherIdle
  /\ InitResolver
  /\ cache = <<>>
  /\ resolutions = <<>>
  /\ aDep = PatC1
  /\ deps = <<>>
  /\ isFlat = FALSE
  /\ rootIdx = 0
  /\ phase = "idle"
  /\ ops = 0
  /\ output = <<>>
  /\ input \in VersionLists(MaxVersions) \X ReduceRanges

Reduce ==
  /\ output = <<>>
  /\ output' = <<reduce(input[1], input[2])>>
  /\ UNCHANGED <<resolverVars, ops, input, findVars, initVars, extraVars>>

NextReduce == Reduce

SpecReduce == InitReduce /\ [][NextReduce]_vars

\* the elements of the list that satisfy the range
candidates(versions, range) ==
  {versions[i] : i \in {j \in 1..Len(versions) : semverSatisfies(versions[j], range)}}

\* C15: for the range 'latest' reduce returns the last element of versions;
\* for any other range it returns an element that satisfies the range and is
\* not below any other element that does; it returns none only when no
\* element is a candidate
C15_ReduceTakesLastOrHighest ==
  output # <<>> =>
    LET versions == input[1]
        range == input[2]
        result == output[1]
    IN  IF range = LATEST
        THEN IF versions = <<>> THEN result = None
             ELSE result = versions[Len(versions)]
        ELSE IF candidates(versions, range) = {} THEN result = None
             ELSE /\ result \in candidates(versions, range)
                  /\ \A v \in candidates(versions, range) :
                       ~versionLess(parseVersion(result), parseVersion(v))

\* C15 witness: from an unsorted list with versions above and below the
\* range, reduce returned the highest one inside the range
C15_Witness ==
  /\ output = <<V105>>
  /\ input[2] = normalizePattern(PatC2).range
  /\ input[1] = <<V110, V105, V100>>

\* C15 witness for 'latest': the last element of a list that is not sorted
C15_WitnessLatest ==
  /\ output = <<V100>>
  /\ input[2] = LATEST
  /\ input[1] = <<V110, V100>>

(* ------------------------------------------------------------------ *)
(* SpecNormalize: normalizePattern on its own                          *)
(* ------------------------------------------------------------------ *)

\* the longest pattern handed to normalizePattern
MaxPatternLen == 4

\* the patterns of at most n characters over a letter, a digit and '@'
RECURSIVE PatternStrings(_)
PatternStrings(n) ==
  IF n = 0 THEN {<<>>}
  ELSE LET shorter == PatternStrings(n - 1)
       IN  shorter \cup {Append(l, ch) : l \in shorter, ch \in {"a", "1", "@"}}

InitNormalize ==
  /\ OtherIdle
  /\ InitResolver
  /\ cache = <<>>
  /\ resolutions = <<>>
  /\ aDep = PatC1
  /\ deps = <<>>
  /\ isFlat = FALSE
  /\ rootIdx = 0
  /\ phase = "idle"
  /\ ops = 0
  /\ output = <<>>
  /\ input \in PatternStrings(MaxPatternLen)

NormalizePattern ==
  /\ output = <<>>
  /\ output' = <<normalizePattern(input)>>
  /\ UNCHANGED <<resolverVars, ops, input, findVars, initVars, extraVars>>

NextNormalize == NormalizePattern

SpecNormalize == InitNormalize /\ [][NextNormalize]_vars

\* the pattern without its leading scope '@'
unscoped(pattern) ==
  IF pattern # <<>> /\ pattern[1] = "@" THEN Tail(pattern) ELSE pattern

\* the pattern has no '@' after the name
noRange(pattern) == ~Contains(unscoped(pattern), "@")

\* the pattern is `name@`: its only '@' after the name is its last character
emptyRange(pattern) ==
  /\ unscoped(pattern) # <<>>
  /\ IndexOf(unscoped(pattern), "@") = Len(unscoped(pattern))

\* what the claim says of patterns without a range, given the hasVersion it
\* expects for `name@`
normalizedAsStated(hasVersionOfEmptyRange) ==
  output # <<>> =>
    /\ noRange(input) =>
         /\ output[1].range = LATEST
         /\ output[1].hasVersion = FALSE
         /\ output[1].name = input
    /\ emptyRange(input) =>
         /\ output[1].range = STAR
         /\ output[1].hasVersion = hasVersionOfEmptyRange
         /\ output[1].name = SubSeq(input, 1, Len(input) - 1)

\* C16 as stated: a pattern with no '@' after the name yields range 'latest'
\* and hasVersion false, `name@` yields range '*' and hasVersion true, and a
\* leading scope '@' stays part of the name
C16_EmptyRangeHasVersion == normalizedAsStated(TRUE)

\* C16: a pattern with no '@' after the name yields range 'latest' and
\* hasVersion false, `name@` yields range '*' and hasVersion false as well,
\* and a leading scope '@' stays part of the name
C16_EmptyRangeHasNoVersion == normalizedAsStated(FALSE)

\* C16 witness: the scoped pattern `@a@` was normalized to the name `@a`
\* with range '*'
C16_Witness ==
  /\ input = <<"@", "a", "@">>
  /\ output # <<>>
  /\ output[1].name = <<"@", "a">>
  /\ output[1].range = STAR

(* ------------------------------------------------------------------ *)
(* SpecLockfile: Lockfile.getLockfile on a patterns map                *)
(* ------------------------------------------------------------------ *)

\* the most patterns in the map handed to getLockfile
MaxPairs == 3

\* the characters of the patterns, in the order of their char codes
AsciiOrder ==
  <<"#", "*", "-", ".", "/", "0", "1", "2", "3", "4", "5", "6", "7", "8", "9",
    ":", "@", "^", "a", "b", "c", "d", "g", "h", "r", "u", "~">>

\* String.prototype.charCodeAt, up to an order-preserving renumbering
charCode(ch) == IndexOf(AsciiOrder, ch)

RECURSIVE sortAlphaFrom(_, _, _)
sortAlphaFrom(a, b, i) ==
  IF i > Min(Len(a), Len(b)) THEN Len(a) - Len(b)
  ELSE IF charCode(a[i]) # charCode(b[i]) THEN charCode(a[i]) - charCode(b[i])
  ELSE sortAlphaFrom(a, b, i + 1)

\* sortAlpha(a, b): negative, zero or positive
sortAlpha(a, b) == sortAlphaFrom(a, b, 1)

RECURSIVE sortKeys(_)
\* Array.prototype.sort(sortAlpha) on distinct keys
sortKeys(S) ==
  IF S = {} THEN <<>>
  ELSE LET least == CHOOSE x \in S : \A y \in S : sortAlpha(x, y) <= 0
       IN  <<least>> \o sortKeys(S \ {least})

\* a variant that takes the keys in the insertion order of the map
patternsKeysUnsorted(pairs) == [i \in 1..Len(pairs) |-> pairs[i].pattern]

\* Object.keys(patterns).sort(sortAlpha); the map is the sequence of its
\* pairs in insertion order
sortedPatternsKeys(pairs) ==
  sortKeys({pairs[i].pattern : i \in 1..Len(pairs)})

\* keyForRemote(remote); <<>> is null
keyForRemote(remote) ==
  IF remote.resolved # <<>> THEN remote.resolved
  ELSE IF remote.reference # <<>> /\ remote.hash # <<>>
  THEN remote.reference \o <<"#">> \o remote.hash
  ELSE <<>>

\* a variant of implodeEntry that always leaves the name to be inferred
implodeEntryNameInferred(pattern, obj) ==
  [name |-> <<>>,
   version |-> obj.version,
   uid |-> IF obj.uid = obj.version THEN <<>> ELSE obj.uid,
   resolved |-> obj.resolved,
   registry |-> IF obj.registry = NPM THEN <<>> ELSE obj.registry,
   permissions |-> obj.permissions]

\* implodeEntry(pattern, obj); <<>> is undefined
implodeEntry(pattern, obj) ==
  [name |-> IF getName(pattern) = obj.name THEN <<>> ELSE obj.name,
   version |-> obj.version,
   uid |-> IF obj.uid = obj.version THEN <<>> ELSE obj.uid,
   resolved |-> obj.resolved,
   registry |-> IF obj.registry = NPM THEN <<>> ELSE obj.registry,
   permissions |-> obj.permissions]

\* patterns[pattern]
pkgOf(pairs, pattern) ==
  pairs[CHOOSE i \in 1..Len(pairs) : pairs[i].pattern = pattern].pkg

\* the object implodeEntry is called with in getLockfile
entryFields(pkg) ==
  [name |-> pkg.name, version |-> pkg.version, uid |-> pkg.uid,
   resolved |-> pkg.remote.resolved, registry |-> pkg.remote.registry,
   permissions |-> pkg.permissions]

RECURSIVE lockfileFrom(_, _, _, _)
\* the loop of getLockfile. keys: the keys of the lockfile object in insertion
\* order; owner: the pattern whose entry object a key holds; objs: the entry
\* objects by the pattern they were built for; seen: owner by remoteKey
lockfileFrom(pairs, keys, i, acc) ==
  IF i > Len(keys) THEN [keys |-> acc.keys, owner |-> acc.owner, objs |-> acc.objs]
  ELSE LET pattern == keys[i]
           pkg == pkgOf(pairs, pattern)
           remoteKey == keyForRemote(pkg.remote)
       IN  IF remoteKey # <<>> /\ remoteKey \in DOMAIN acc.seen
           THEN LET seenPattern == acc.seen[remoteKey]
                IN  lockfileFrom(pairs, keys, i + 1,
                      [acc EXCEPT
                         !.keys = Append(@, pattern),
                         !.owner = (pattern :> seenPattern) @@ @,
                         !.objs[seenPattern].name =
                            IF @ = <<>> /\ getName(pattern) # pkg.name
                            THEN pkg.name ELSE @])
           ELSE lockfileFrom(pairs, keys, i + 1,
                  [acc EXCEPT
                     !.keys = Append(@, pattern),
                     !.owner = (pattern :> pattern) @@ @,
                     !.objs = (pattern :> implodeEntry(pattern, entryFields(pkg))) @@ @,
                     !.seen = IF remoteKey # <<>>
                              THEN (remoteKey :> pattern) @@ @ ELSE @])

\* Lockfile.getLockfile(patterns), for manifests that have a reference and a
\* remote
getLockfile(pairs) ==
  lockfileFrom(pairs, sortedPatternsKeys(pairs), 1,
               [keys |-> <<>>, owner |-> <<>>, objs |-> <<>>, seen |-> <<>>])

\* a manifest as getLockfile reads it
LockPkg(name, version, uid, resolved, reference, hash) ==
  [name |-> name, version |-> version, uid |-> uid,
   remote |-> [resolved |-> resolved, reference |-> reference, hash |-> hash,
               registry |-> NPM],
   permissions |-> NoPermissions]

TarballC110 == <<"c", "-", "1", ".", "1", ".", "0">>
GitUrl == <<"g", ":", "u", "/", "r", "#", "h">>
GitHash == <<"h">>
GitRef == <<"r">>

PatBGit == <<"b", "@", "u", "/", "r">>
PatCGit == <<"c", "@", "u", "/", "r">>
PatDGit == <<"d", "@", "u", "/", "r">>
PatARef == <<"a", "@", "r">>
PatBRef == <<"b", "@", "r">>

\* the pattern-to-manifest pairs a patterns map is made of: two ranges of c
\* on one tarball, three patterns on one git package named c, a package whose
\* remote has a reference without a hash and so no key, and two patterns on
\* one remote known by reference and hash
LockPairs ==
  { [pattern |-> PatC1, pkg |-> LockPkg(NameC, V110, V110, TarballC110, <<>>, <<>>)],
    [pattern |-> PatC3, pkg |-> LockPkg(NameC, V110, V110, TarballC110, <<>>, <<>>)],
    [pattern |-> PatBGit, pkg |-> LockPkg(NameC, V100, GitHash, GitUrl, <<>>, <<>>)],
    [pattern |-> PatCGit, pkg |-> LockPkg(NameC, V100, GitHash, GitUrl, <<>>, <<>>)],
    [pattern |-> PatDGit, pkg |-> LockPkg(NameC, V100, GitHash, GitUrl, <<>>, <<>>)],
    [pattern |-> PatD, pkg |-> LockPkg(NameD, V100, V100, <<>>, GitRef, <<>>)],
    [pattern |-> PatARef, pkg |-> LockPkg(NameA, V100, V100, <<>>, GitRef, GitHash)],
    [pattern |-> PatBRef, pkg |-> LockPkg(NameA, V100, V100, <<>>, GitRef, GitHash)] }

\* the maps of at most n pairs, in every insertion order
RECURSIVE PairLists(_)
PairLists(n) ==
  IF n = 0 THEN {<<>>}
  ELSE LET shorter == PairLists(n - 1)
           longer == {Append(l, pr) : l \in shorter, pr \in LockPairs}
       IN  shorter \cup
             {l \in longer :
                \A i \in 1..(Len(l) - 1) : l[i].pattern # l[Len(l)].pattern}

InitLockfile ==
  /\ OtherIdle
  /\ InitResolver
  /\ cache = <<>>
  /\ resolutions = <<>>
  /\ aDep = PatC1
  /\ deps = <<>>
  /\ isFlat = FALSE
  /\ rootIdx = 0
  /\ phase = "idle"
  /\ ops = 0
  /\ output = <<>>
  /\ input \in PairLists(MaxPairs)

GetLockfile ==
  /\ output = <<>>
  /\ output' = <<getLockfile(input)>>
  /\ UNCHANGED <<resolverVars, ops, input, findVars, initVars, extraVars>>

NextLockfile == GetLockfile

SpecLockfile == InitLockfile /\ [][NextLockfile]_vars

\* the map with its pairs inserted in the order f
reordered(pairs, f) == [i \in 1..Len(pairs) |-> pairs[f[i]]]

\* C17: the lockfile getLockfile returns is the one it returns for every other
\* insertion order of the same pattern-to-manifest pairs (same keys in the
\* same order, same entry contents, same owner for every key), and its keys
\* are in ascending sortAlpha order
C17_LockfileIgnoresInsertionOrder ==
  output # <<>> =>
    /\ \A f \in Permutations(1..Len(input)) :
         getLockfile(reordered(input, f)) = output[1]
    /\ \A i, j \in 1..Len(output[1].keys) :
         i < j => sortAlpha(output[1].keys[i], output[1].keys[j]) < 0

\* C17 witness: a map that lists d@^1.0.0 first, then c@~1.1.0 and c@^1.0.0,
\* gave a lockfile that ends with d@^1.0.0 and whose shared entry of c is
\* owned by c@^1.0.0
C17_Witness ==
  /\ output # <<>>
  /\ Len(input) = 3
  /\ input[1].pattern = PatD
  /\ input[2].pattern = PatC3
  /\ input[3].pattern = PatC1
  /\ output[1].keys = <<PatC1, PatC3, PatD>>
  /\ output[1].owner[PatC3] = PatC1

\* the remote key of the manifest of a pattern of the map
remoteKeyOf(pattern) == keyForRemote(pkgOf(input, pattern).remote)

\* the first in sortAlpha order of the patterns of the map with that remote key
firstWithKey(key) ==
  LET same == {input[i].pattern : i \in {j \in 1..Len(input) :
                                           remoteKeyOf(input[j].pattern) = key}}
  IN  CHOOSE x \in same : \A y \in same : sortAlpha(x, y) <= 0

\* C18: every pattern of the map is a key of the lockfile; the patterns whose
\* manifests have one remote key hold one entry, the one built for the first
\* of them in sortAlpha order, with that manifest's version and resolved URL;
\* a pattern whose remote has no key holds an entry no other key holds; and
\* explodeEntry gives the entry of every key the name of the key's manifest
C18_SharedEntryByRemoteKey ==
  output # <<>> =>
    LET lf == output[1]
    IN  /\ Range(lf.keys) = {input[i].pattern : i \in 1..Len(input)}
        /\ \A p \in Range(lf.keys) :
             /\ IF remoteKeyOf(p) # <<>>
                THEN LET first == firstWithKey(remoteKeyOf(p))
                     IN  /\ lf.owner[p] = first
                         /\ lf.objs[first].version = pkgOf(input, first).version
                         /\ lf.objs[first].resolved = pkgOf(input, first).remote.resolved
                ELSE /\ lf.owner[p] = p
                     /\ \A q \in Range(lf.keys) \ {p} : lf.owner[q] # p
             /\ explodeEntry(p, lf.objs[lf.owner[p]]).name = pkgOf(input, p).name

\* C18 witness: c@u/r and d@u/r share the entry built for c@u/r, whose name
\* had to be set for d@u/r, next to a pattern whose remote has no key
C18_Witness ==
  /\ output # <<>>
  /\ {input[i].pattern : i \in 1..Len(input)} = {PatCGit, PatDGit, PatD}
  /\ output[1].owner[PatDGit] = PatCGit
  /\ output[1].objs[PatCGit].name = NameC
  /\ output[1].owner[PatD] = PatD

(* ------------------------------------------------------------------ *)
(* SpecCache: Config.getCache under interleaved callers                 *)
(* ------------------------------------------------------------------ *)

\* the most calls of getCache on the Config
MaxCalls == 4

CacheKeys == {"manifest-dir", "metadata-dir"}

\* this.cache[key]; 0 stands for undefined and for null
cached(slots, key) == IF key \in DOMAIN slots THEN slots[key] ELSE 0

\* a variant of the rejection handler that leaves the slot as it is
keepSlot(slots, key) == slots

\* the rejection handler of getCache: this.cache[key] = null
clearSlot(slots, key) == (key :> 0) @@ slots

\* getCache(key, factory) returns the promise of the slot, or stores and
\* returns factory().catch(...). A promise is "pending" while the factory's
\* promise is, "rejecting" once that one has rejected and the catch handler
\* is still to run (the stored promise is pending until then), "fulfilled"
\* or "rejected" once it is settled.
GetCache(key) ==
  /\ Len(calls) < MaxCalls
  /\ IF cached(configCache, key) # 0
     THEN /\ calls' = Append(calls, [key |-> key, returned |-> cached(configCache, key),
                                     invoked |-> FALSE])
          /\ UNCHANGED <<configCache, promises>>
     ELSE /\ promises' = Append(promises, [key |-> key, state |-> "pending"])
          /\ configCache' = (key :> Len(promises) + 1) @@ configCache
          /\ calls' = Append(calls, [key |-> key, returned |-> Len(promises) + 1,
                                     invoked |-> TRUE])
  /\ UNCHANGED <<resolverVars, callVars, findVars, initVars, mutexVars>>

\* the promise of a factory is fulfilled, and with it the stored promise
FactoryFulfils(p) ==
  /\ promises[p].state = "pending"
  /\ promises' = [promises EXCEPT ![p].state = "fulfilled"]
  /\ UNCHANGED <<configCache, calls, resolverVars, callVars, findVars, initVars, mutexVars>>

\* the promise of a factory is rejected
FactoryRejects(p) ==
  /\ promises[p].state = "pending"
  /\ promises' = [promises EXCEPT ![p].state = "rejecting"]
  /\ UNCHANGED <<configCache, calls, resolverVars, callVars, findVars, initVars, mutexVars>>

\* the catch handler runs: the slot is cleared and the error thrown on
CatchHandler(p) ==
  /\ promises[p].state = "rejecting"
  /\ configCache' = clearSlot(configCache, promises[p].key)
  /\ promises' = [promises EXCEPT ![p].state = "rejected"]
  /\ UNCHANGED <<calls, resolverVars, callVars, findVars, initVars, mutexVars>>

InitCache ==
  /\ InitResolver
  /\ NoCall
  /\ OtherIdle
  /\ cache = <<>>
  /\ resolutions = <<>>
  /\ aDep = PatC1
  /\ deps = <<>>
  /\ isFlat = FALSE
  /\ rootIdx = 0
  /\ phase = "idle"

NextCache ==
  \/ \E key \in CacheKeys : GetCache(key)
  \/ \E p \in 1..Len(promises) :
       FactoryFulfils(p) \/ FactoryRejects(p) \/ CatchHandler(p)

SpecCache == InitCache /\ [][NextCache]_vars

\* C19: a call of getCache for a key whose slot holds a promise returns that
\* promise and does not invoke its factory; the promise a slot holds is
\* pending or fulfilled, and a promise that has rejected is in no slot; a call
\* for a key whose slot is empty invokes its factory and stores and returns
\* the new promise
C19_OnePromisePerKeyUntilRejected ==
  [][ /\ Len(calls') = Len(calls) + 1 =>
           LET call == calls'[Len(calls')]
               stored == cached(configCache, call.key)
           IN  IF stored # 0
               THEN /\ call.returned = stored
                    /\ ~call.invoked
                    /\ UNCHANGED <<configCache, promises>>
               ELSE /\ call.invoked
                    /\ call.returned = Len(promises) + 1
                    /\ cached(configCache', call.key) = call.returned
                    /\ promises'[call.returned] = [key |-> call.key, state |-> "pending"]
      /\ \A key \in CacheKeys :
           cached(configCache', key) # 0 =>
             promises'[cached(configCache', key)].state
               \in {"pending", "rejecting", "fulfilled"}
      /\ \A p \in 1..Len(promises') :
           promises'[p].state = "rejected" => cached(configCache', promises'[p].key) # p
    ]_vars

\* C19 witness: the first caller's factory was invoked, a second caller got
\* the same promise while it was pending, the promise rejected, and a third
\* caller's factory was invoked and its promise stored
C19_Witness ==
  /\ Len(calls) >= 3
  /\ calls[1].invoked /\ calls[1].returned = 1
  /\ calls[2].key = calls[1].key /\ ~calls[2].invoked /\ calls[2].returned = 1
  /\ promises[1].state = "rejected"
  /\ calls[3].key = calls[1].key /\ calls[3].invoked /\ calls[3].returned = 2
  /\ cached(configCache, calls[1].key) = 2

(* ------------------------------------------------------------------ *)
(* SpecMutex: instances of the cli under --mutex file and network       *)
(* ------------------------------------------------------------------ *)

\* the instances started
MaxInstances == 2

Instances == 1..MaxInstances

\* the mutex scopes: a lock file, a port, and a port on which a program that
\* is not an instance is listening
FileScope == "file:.yarn-single-instance"
PortScope == "network:31997"
BusyPortScope == "network:8080"
Scopes == {FileScope, PortScope, BusyPortScope}

\* the ways to give the instances their scopes; instances run the same code,
\* so the scopes are handed out in one order only
ScopeOrder == <<FileScope, PortScope, BusyPortScope>>
ScopeChoices ==
  {f \in [Instances -> Scopes] :
     \A i, j \in Instances :
       i < j => IndexOf(ScopeOrder, f[i]) <= IndexOf(ScopeOrder, f[j])}

\* mutexType === 'file'
isFile(scope) == scope = FileScope

\* the exit codes a command returns or an error carries, up to this one
MaxExitCode == 2

\* a value that is undefined, and a number as a value
Undefined == <<>>
ExitCodes == {<<n>> : n \in 0..MaxExitCode}

\* exit(exitCode): process.exitCode = exitCode || 0
exit(exitCode) ==
  IF exitCode = Undefined \/ exitCode = <<0>> THEN <<0>> ELSE exitCode

\* the classes of the errors run() rejects with
ErrorClasses == {"ProcessTermError", "MessageError", "Error"}

\* main: .catch(err => ...): exit(err.EXIT_CODE || 1) when err is a
\* ProcessTermError, exit(1) for every other error
catchExit(class, code) ==
  IF class = "ProcessTermError"
  THEN exit(IF exit(code) = <<0>> THEN <<1>> ELSE code)
  ELSE exit(<<1>>)

\* a variant of the lock callback that runs the command whatever err is
onLockRunsAnyway(err) == "running"

\* the callback of lockfile.lock: on err retry after a timeout, else run()
onLock(err) == IF err THEN "sleeping" ELSE "running"

\* a variant of startServer that runs the command when listen fails as well
onListenRunsAnyway(bound) == "running"

\* startServer: the listen callback calls run(), the 'error' handler
\* reportServerName()
onListen(bound) == IF bound THEN "running" ELSE "asking"

\* server.listen succeeds when nothing is bound to the port
portFree(scope) == scope # BusyPortScope /\ listening[scope] = 0

\* a variant of killSockets that closes the server and leaves the sockets open
killSocketsServerOnly(i) ==
  /\ listening' = [listening EXCEPT ![scopeOf[i]] = IF @ = i THEN 0 ELSE @]
  /\ UNCHANGED clients
  /\ stalling' = stalling \cup {i}

\* a variant of the 'close' handler of waitForTheNetwork that does nothing
afterCloseStay(i) == "connected"

\* waitForTheNetwork: socket.on('close', () => startServer())
afterClose(i) == "binding"

\* killSockets(): server.close(), socket.destroy() for every client, and the
\* timer of 5 s that ends a process which has not exited by then
killSockets(i) ==
  /\ listening' = [listening EXCEPT ![scopeOf[i]] = IF @ = i THEN 0 ELSE @]
  /\ clients' = [clients EXCEPT ![i] = {}]
  /\ stalling' = stalling \cup {i}

\* what a step of runEventuallyWithFile leaves alone
LockStep ==
  UNCHANGED <<resolverVars, callVars, findVars, initVars, configVars, scopeOf,
              net, main, walk>>

MutexStep == LockStep /\ UNCHANGED fileVars

\* the warnings and failed attempts counted, up to this many
MaxCount == 2

\* one more, up to MaxCount
counted(n) == IF n < MaxCount THEN n + 1 ELSE n

\* a variant of the lock callback that warns on every failed attempt
warnsOnEveryError(err, firstTime) == err

\* the callback of lockfile.lock: if (err) { if (isFirstTime) reporter.warn(...) }
warnsOn(err, firstTime) == err /\ firstTime

\* what a step leaves alone that sets no timer and no exit code and gives no
\* waitingNamedInstance warning
QuietStep == UNCHANGED <<stalling, processExitCode, named>>

\* main: runEventuallyWithFile(mutexSpecifier, true) or
\* runEventuallyWithNetwork(mutexSpecifier)
Start(i) ==
  /\ pc[i] = "start"
  /\ pc' = [pc EXCEPT ![i] = IF isFile(scopeOf[i]) THEN "locking" ELSE "binding"]
  /\ isFirstTime' = IF isFile(scopeOf[i]) THEN [isFirstTime EXCEPT ![i] = TRUE]
                    ELSE isFirstTime
  /\ UNCHANGED <<held, listening, clients, warned, failures>>
  /\ LockStep /\ QuietStep

\* runEventuallyWithFile: lockfile.lock(lockFilename, ...) and its callback
LockCallback(i) ==
  /\ pc[i] = "locking"
  /\ pc' = [pc EXCEPT ![i] = onLock(held[scopeOf[i]] # 0)]
  /\ held' = IF held[scopeOf[i]] = 0 THEN [held EXCEPT ![scopeOf[i]] = i] ELSE held
  /\ warned' = IF warnsOn(held[scopeOf[i]] # 0, isFirstTime[i])
               THEN [warned EXCEPT ![i] = counted(@)] ELSE warned
  /\ failures' = IF held[scopeOf[i]] # 0
                 THEN [failures EXCEPT ![i] = counted(@)] ELSE failures
  /\ UNCHANGED <<listening, clients, isFirstTime>>
  /\ LockStep /\ QuietStep

\* runEventuallyWithFile: the timeout of 200 ms calls runEventuallyWithFile again
Timeout(i) ==
  /\ pc[i] = "sleeping"
  /\ pc' = [pc EXCEPT ![i] = "locking"]
  /\ isFirstTime' = [isFirstTime EXCEPT ![i] = FALSE]
  /\ UNCHANGED <<held, listening, clients, warned, failures>>
  /\ LockStep /\ QuietStep

\* run() resolves with res: under file the lock is released next, under
\* network the sockets are killed, the promise resolves with res and main
\* calls exit
RunResolves(i, res) ==
  /\ pc[i] = "running"
  /\ IF isFile(scopeOf[i])
     THEN /\ pc' = [pc EXCEPT ![i] = "releasing"]
          /\ UNCHANGED <<listening, clients, stalling, processExitCode>>
     ELSE /\ pc' = [pc EXCEPT ![i] = "done"]
          /\ killSockets(i)
          /\ processExitCode' = [processExitCode EXCEPT ![i] = exit(res)]
  /\ UNCHANGED <<held, named>>
  /\ MutexStep

\* run() rejects with an error of the class class whose EXIT_CODE is code:
\* under file release is not called, under network the sockets are killed;
\* the catch of main calls exit
RunRejects(i, class, code) ==
  /\ pc[i] = "running"
  /\ pc' = [pc EXCEPT ![i] = "failed"]
  /\ IF isFile(scopeOf[i]) THEN UNCHANGED <<listening, clients, stalling>>
     ELSE killSockets(i)
  /\ processExitCode' = [processExitCode EXCEPT ![i] = catchExit(class, code)]
  /\ UNCHANGED <<held, named>>
  /\ MutexStep

\* release(resolve): the promise resolves with what release passes to its
\* callback, nothing, and main calls exit
Release(i) ==
  /\ pc[i] = "releasing"
  /\ pc' = [pc EXCEPT ![i] = "done"]
  /\ held' = [held EXCEPT ![scopeOf[i]] = 0]
  /\ processExitCode' = [processExitCode EXCEPT ![i] = exit(Undefined)]
  /\ UNCHANGED <<listening, clients, stalling, named>>
  /\ MutexStep

\* SIGINT or SIGQUIT reaches an instance whose handler is registered with
\* onDeath: under file, from the lock on, the handler sets process.exitCode =
\* 1; under network, from the listen callback on, it is killSockets; a run
\* goes on
Signal(i) ==
  /\ IF isFile(scopeOf[i])
     THEN /\ pc[i] \in {"running", "releasing", "done", "failed"}
          /\ processExitCode' = [processExitCode EXCEPT ![i] = <<1>>]
          /\ UNCHANGED <<listening, clients, stalling>>
     ELSE /\ pc[i] \in {"running", "done", "failed"}
          /\ killSockets(i)
          /\ UNCHANGED processExitCode
  /\ UNCHANGED <<pc, held, named>>
  /\ MutexStep

\* killSockets: the timer comes due in a process that has not exited:
\* console.error('Process stalled') and process.exit(1)
Stalled(i) ==
  /\ i \in stalling
  /\ pc[i] \in {"running", "done", "failed"}
  /\ pc' = [pc EXCEPT ![i] = "exited"]
  /\ stalling' = stalling \ {i}
  /\ processExitCode' = [processExitCode EXCEPT ![i] = <<1>>]
  /\ UNCHANGED <<held, listening, clients, named>>
  /\ MutexStep

\* the process of an instance whose outcome was delivered exits; the lock it
\* still holds and the timer it has set go with it
ProcessExit(i) ==
  /\ pc[i] \in {"done", "failed"}
  /\ pc' = [pc EXCEPT ![i] = "exited"]
  /\ held' = IF isFile(scopeOf[i]) /\ held[scopeOf[i]] = i
             THEN [held EXCEPT ![scopeOf[i]] = 0] ELSE held
  /\ stalling' = stalling \ {i}
  /\ UNCHANGED <<listening, clients, processExitCode, named>>
  /\ MutexStep

\* startServer(): server.listen(connectionOptions, ...)
StartServer(i) ==
  /\ pc[i] = "binding"
  /\ pc' = [pc EXCEPT ![i] = onListen(portFree(scopeOf[i]))]
  /\ listening' = IF portFree(scopeOf[i])
                  THEN [listening EXCEPT ![scopeOf[i]] = i] ELSE listening
  /\ UNCHANGED <<held, clients>>
  /\ MutexStep /\ QuietStep

\* reportServerName(): http.get(connectionOptions, ...): the server bound to
\* the port answers, or the request fails and its 'error' handler starts the
\* server again
ReportServerName(i) ==
  /\ pc[i] = "asking"
  /\ pc' = [pc EXCEPT ![i] =
              IF scopeOf[i] = BusyPortScope \/ listening[scopeOf[i]] # 0
              THEN "answered" ELSE "binding"]
  /\ UNCHANGED <<held, listening, clients>>
  /\ MutexStep /\ QuietStep

\* reportServerName: response.on('end', ...): the manager of an instance
\* writes head and body of its answer in one turn, so the answer of an
\* instance is whole: it is parsed, the waitingNamedInstance warning given and
\* the socket opened next, whether or not that instance still listens; the
\* answer of another program does not parse: the handler rejects with
\* mutexPortBusy, and the catch of main calls exit(1)
ResponseEnds(i) ==
  /\ pc[i] = "answered"
  /\ LET parsed == scopeOf[i] # BusyPortScope
     IN  /\ pc' = [pc EXCEPT ![i] = IF parsed THEN "connecting" ELSE "failed"]
         /\ named' = IF parsed THEN [named EXCEPT ![i] = counted(@)] ELSE named
         /\ processExitCode' = IF parsed THEN processExitCode
                               ELSE [processExitCode EXCEPT ![i] = catchExit("Error", Undefined)]
  /\ UNCHANGED <<held, listening, clients, stalling>>
  /\ MutexStep

\* handleSignals: SIGTERM reaches an instance, in whatever state it is:
\* process.exit(1) at once; the server, the sockets, the lock and the timer of
\* the process go with it
Terminate(i) ==
  /\ pc[i] # "exited"
  /\ pc' = [pc EXCEPT ![i] = "exited"]
  /\ processExitCode' = [processExitCode EXCEPT ![i] = <<1>>]
  /\ held' = [held EXCEPT ![scopeOf[i]] = IF @ = i THEN 0 ELSE @]
  /\ listening' = [listening EXCEPT ![scopeOf[i]] = IF @ = i THEN 0 ELSE @]
  /\ clients' = [server \in Instances |->
                   IF server = i THEN {} ELSE clients[server] \ {i}]
  /\ stalling' = stalling \ {i}
  /\ UNCHANGED named
  /\ MutexStep

\* waitForTheNetwork(): net.createConnection(connectionOptions)
WaitForTheNetwork(i) ==
  /\ pc[i] = "connecting"
  /\ IF listening[scopeOf[i]] # 0
     THEN /\ pc' = [pc EXCEPT ![i] = "connected"]
          /\ clients' = [clients EXCEPT ![listening[scopeOf[i]]] = @ \cup {i}]
     ELSE /\ pc' = [pc EXCEPT ![i] = "binding"]
          /\ UNCHANGED clients
  /\ UNCHANGED <<held, listening>>
  /\ MutexStep /\ QuietStep

\* waitForTheNetwork: the socket's 'close' handler calls startServer()
SocketClose(i) ==
  /\ pc[i] = "connected"
  /\ \A server \in Instances : i \notin clients[server]
  /\ pc' = [pc EXCEPT ![i] = afterClose(i)]
  /\ UNCHANGED <<held, listening, clients>>
  /\ MutexStep /\ QuietStep

InitMutex ==
  /\ InitResolver
  /\ NoCall
  /\ InitConfig
  /\ cache = <<>>
  /\ resolutions = <<>>
  /\ aDep = PatC1
  /\ deps = <<>>
  /\ isFlat = FALSE
  /\ rootIdx = 0
  /\ phase = "idle"
  /\ pc = [i \in Instances |-> "start"]
  /\ scopeOf \in ScopeChoices
  /\ held = [scope \in Scopes |-> 0]
  /\ listening = [scope \in Scopes |-> 0]
  /\ clients = [i \in Instances |-> {}]
  /\ isFirstTime = [i \in Instances |-> FALSE]
  /\ warned = [i \in Instances |-> 0]
  /\ failures = [i \in Instances |-> 0]
  /\ stalling = {}
  /\ named = [i \in Instances |-> 0]
  /\ processExitCode = [i \in Instances |-> Undefined]
  /\ net = <<>>
  /\ main = <<>>
  /\ walk = <<>>

\* the steps of one instance
InstanceNext(i) ==
  \/ Start(i)
  \/ LockCallback(i)
  \/ Timeout(i)
  \/ \E res \in ExitCodes \cup {Undefined} : RunResolves(i, res)
  \/ \E class \in ErrorClasses, code \in ExitCodes \cup {Undefined} :
       RunRejects(i, class, code)
  \/ Release(i)
  \/ ProcessExit(i)
  \/ StartServer(i)
  \/ ReportServerName(i)
  \/ ResponseEnds(i)
  \/ WaitForTheNetwork(i)
  \/ SocketClose(i)
  \/ Stalled(i)

NextMutex == \E i \in Instances : InstanceNext(i) \/ Signal(i) \/ Terminate(i)

SpecMutex == InitMutex /\ [][NextMutex]_vars

\* the steps of the instances when no signal is sent to them
NextMutexLive == \E i \in Instances : InstanceNext(i)

\* no signal is sent, and the event loop of every instance keeps running: a
\* timer that is due, a callback that is ready and a run that has started all
\* come to their end
SpecMutexLive ==
  InitMutex /\ [][NextMutexLive]_vars /\ \A i \in Instances : WF_vars(InstanceNext(i))

\* C20: no two instances with the same lock file path or the same port are
\* inside run() at the same time
C20_OneRunPerMutexScope ==
  \A i, j \in Instances :
    (i # j /\ scopeOf[i] = scopeOf[j]) => ~(pc[i] = "running" /\ pc[j] = "running")

\* C20 witness under the lock file: an instance runs while another one, whose
\* lock attempt failed, sleeps before it tries again
C20_WitnessFile ==
  \E i, j \in Instances :
    /\ scopeOf[i] = FileScope /\ pc[i] = "running" /\ held[FileScope] = i
    /\ scopeOf[j] = FileScope /\ pc[j] = "sleeping"

\* C21: under the lock file an instance has warned 'waitingInstance' once if
\* a lock attempt of it has failed and never otherwise, and the warning is
\* given at its first failed attempt; an instance inside run() holds the lock;
\* and every wait of 200 ms is followed by a new attempt
C21_WarnOnceRetryUntilLocked ==
  /\ [](\A i \in Instances :
          /\ warned[i] = IF failures[i] >= 1 THEN 1 ELSE 0
          /\ (isFile(scopeOf[i]) /\ pc[i] = "running") => held[scopeOf[i]] = i)
  /\ [][\A i \in Instances :
          warned'[i] # warned[i] => (failures[i] = 0 /\ failures'[i] = 1)]_vars
  /\ \A i \in Instances : (pc[i] = "sleeping") ~> (pc[i] = "locking")

\* C21 witness: an instance whose attempts failed more than once has warned
\* once and is inside run() with the lock
C21_Witness ==
  \E i \in Instances :
    /\ isFile(scopeOf[i])
    /\ failures[i] >= 2
    /\ warned[i] = 1
    /\ pc[i] = "running"
    /\ held[scopeOf[i]] = i

\* the instance waits for the leader of its port: it has found the port bound
\* by an instance and asks for its name, opens the socket or holds it
waitsForLeader(i) ==
  /\ scopeOf[i] = PortScope
  /\ pc[i] \in {"asking", "answered", "connecting", "connected"}

\* C22: under the network mutex an instance whose socket to the leader has
\* closed binds again, and an instance that waits for the leader of its port
\* is eventually inside run() as the leader itself
C22_WaitingInstanceBecomesLeader ==
  /\ [][\A i \in Instances :
          (pc[i] = "connected" /\ pc'[i] # "connected") =>
             (pc'[i] = "binding" /\ \A server \in Instances : i \notin clients[server])]_vars
  /\ \A i \in Instances :
       waitsForLeader(i) ~> (pc[i] = "running" /\ listening[scopeOf[i]] = i)

\* C22 witness: an instance that was refused the port, was told the name of
\* the leader and waited for it, is the leader now and inside run(), after the
\* first leader has finished
C22_Witness ==
  \E i, j \in Instances :
    /\ scopeOf[i] = PortScope /\ pc[i] \in {"done", "failed", "exited"}
    /\ scopeOf[j] = PortScope /\ pc[j] = "running" /\ listening[PortScope] = j
    /\ named[j] >= 1

\* C23: an instance of the network mutex whose run has finished, with either
\* outcome, listens no more and has no accepted socket left open
C23_LeaderKillsSocketsWhenDone ==
  \A i \in Instances :
    (~isFile(scopeOf[i]) /\ pc[i] \in {"done", "failed", "exited"}) =>
      /\ listening[scopeOf[i]] # i
      /\ clients[i] = {}

\* C23 witness: a leader whose run failed has closed its server and the socket
\* of the instance that waited on it, which has not noticed yet
C23_Witness ==
  \E i, j \in Instances :
    /\ scopeOf[i] = PortScope /\ pc[i] = "failed"
    /\ scopeOf[j] = PortScope /\ pc[j] = "connected"
    /\ listening[PortScope] = 0
    /\ clients[i] = {}

(* ------------------------------------------------------------------ *)
(* C24: a rejected root find ends init                                  *)
(* ------------------------------------------------------------------ *)

\* a find awaited by the loop of init has rejected
findRejected == threw /\ phase = "find"

\* C24: once find has rejected for a root dependency, init is over: no find
\* is started for the remaining root dependencies, and neither the existing-version pass, nor the drain of the delay
\* queue, nor the flat optimisation runs; the rejection stays
C24_RejectedFindEndsInit ==
  [][findRejected =>
       /\ findRejected'
       /\ rootIdx' = rootIdx
       /\ \A t \in 1..Len(tasks') : tasks'[t].req.root => t <= Len(tasks)
       /\ total(log', "existing") = 0
       /\ total(log', "redo") = 0
       /\ total(log', "optimize") = 0]_vars

\* C24 witness: a root find rejected while a root dependency was still to come
C24_Witness ==
  /\ findRejected
  /\ rootIdx >= 1
  /\ rootIdx < Len(deps)
  /\ \E t \in 1..Len(tasks) : tasks[t].req.root /\ tasks[t].st # "done"

(* ------------------------------------------------------------------ *)
(* SpecWorkspaceRoot: Config.findWorkspaceRoot(initial)                 *)
(* ------------------------------------------------------------------ *)

\* the longest path below the filesystem root that is walked
MaxDepth == 2

\* directory names
Segments == {"a", "b"}

\* normalized absolute paths, as the directory names below the filesystem root
Paths == UNION {[1..n -> Segments] : n \in 0..MaxDepth}

\* the globs of workspaces.packages, as path segments: '*', 'a/*' and 'b'
GlobStarOne == <<"*">>
GlobAStar == <<"a", "*">>
GlobB == <<"b">>

\* what a directory holds: no manifest, a manifest without workspaces, and
\* manifests whose workspaces field is [], ['*'], ['a/*'], {nohoist: [..]}
\* or {packages: ['b']}
NoManifest == <<>>
WsAbsent == [shape |-> "absent", hasPackages |-> FALSE, packages |-> <<>>]
WsArray(globs) == [shape |-> "array", hasPackages |-> TRUE, packages |-> globs]
WsNohoist == [shape |-> "object", hasPackages |-> FALSE, packages |-> <<>>]
WsObject(globs) == [shape |-> "object", hasPackages |-> TRUE, packages |-> globs]

\* the file names of the registries, in the order of registryNames, in which
\* findManifest asks tryManifest for them
RegistryFilenames == <<"package.json", "yarn.json">>

\* the manifest file named RegistryFilenames[registry] is there: manifest is
\* what the directory holds and file the name it is stored under
fileExists(manifest, file, registry) ==
  manifest # NoManifest /\ file = RegistryFilenames[registry]

DirManifests ==
  { NoManifest } \cup
  { <<[workspaces |-> w]>> :
      w \in {WsAbsent, WsArray(<<>>), WsArray(<<GlobStarOne>>),
             WsArray(<<GlobAStar>>), WsNohoist, WsObject(<<GlobB>>)} }

\* extractWorkspaces(manifest): undefined is <<>>, a config is <<ws>>
extractWorkspaces(manifest) ==
  IF manifest = NoManifest \/ manifest[1].workspaces.shape = "absent" THEN <<>>
  ELSE IF manifest[1].workspaces.shape = "array"
       THEN <<[hasPackages |-> TRUE, packages |-> manifest[1].workspaces.packages]>>
       ELSE <<[hasPackages |-> manifest[1].workspaces.hasPackages,
               packages |-> manifest[1].workspaces.packages]>>

\* one glob against one relative path: '*' stands for one directory name
globMatches(glob, rel) ==
  /\ Len(glob) = Len(rel)
  /\ \A i \in 1..Len(glob) : glob[i] = "*" \/ glob[i] = rel[i]

\* micromatch([relativePath], packages): the paths of the list that match
micromatch(list, globs) ==
  {i \in 1..Len(list) : \E g \in 1..Len(globs) : globMatches(globs[g], list[i])}

\* path.relative(current, initial), current being the first k names of initial
relative(k, initial) == SubSeq(initial, k + 1, Len(initial))

\* a variant that only asks the globs
matchesInitialGlobOnly(relativePath, packages) ==
  Cardinality(micromatch(<<relativePath>>, packages)) > 0

\* relativePath === '' || micromatch([relativePath], ws.packages).length > 0
matchesInitial(relativePath, packages) ==
  relativePath = <<>> \/ Cardinality(micromatch(<<relativePath>>, packages)) > 0

\* the results of findWorkspaceRoot: a path, null, the folderMissing error,
\* or the error of reading a file that is there no more
Returned(path) == [threw |-> FALSE, value |-> <<path>>, error |-> "none"]
ReturnedNull == [threw |-> FALSE, value |-> <<>>, error |-> "none"]
Thrown == [threw |-> TRUE, value |-> <<>>, error |-> "folderMissing"]
ThrownENOENT == [threw |-> TRUE, value |-> <<>>, error |-> "ENOENT"]

\* one round of the do-while loop of findWorkspaceRoot with current at depth
\* k and the manifest findManifest gave: the call returns, or goes on with the
\* parent; the parent of the filesystem root is the root itself, which ends
\* the loop
loopRound(w, initial, manifest) ==
  LET k == w.current
      ws == extractWorkspaces(manifest)
  IN  IF ws # <<>> /\ ws[1].hasPackages
      THEN [w EXCEPT !.at = "returned",
                     !.result = IF matchesInitial(relative(k, initial), ws[1].packages)
                                THEN Returned(SubSeq(initial, 1, k))
                                ELSE ReturnedNull]
      ELSE IF k = 0 THEN [w EXCEPT !.at = "returned", !.result = ReturnedNull]
      ELSE [w EXCEPT !.at = "find", !.current = k - 1, !.registry = 1]

\* an existing or missing folder and the manifests of it and of its ancestors,
\* filesystem root first, with the file name each is stored under: the tree
\* of one registry until a file of it is renamed
WorkspaceTrees ==
  UNION {[initial : {path}, exists : BOOLEAN,
          manifests : [1..Len(path) + 1 -> DirManifests],
          files : {[k \in 1..Len(path) + 1 |-> RegistryFilenames[r]] :
                     r \in DOMAIN RegistryFilenames}] : path \in Paths}

InitWorkspaceRoot ==
  /\ OtherIdle
  /\ InitResolver
  /\ cache = <<>>
  /\ resolutions = <<>>
  /\ aDep = PatC1
  /\ deps = <<>>
  /\ isFlat = FALSE
  /\ rootIdx = 0
  /\ phase = "idle"
  /\ ops = 0
  /\ input \in WorkspaceTrees
  /\ output = <<>>

\* what a step of a call that reads the file system leaves alone
StepWalk ==
  UNCHANGED <<resolverVars, ops, findVars, initVars, configVars,
              pc, scopeOf, held, listening, clients, fileVars, stalling, named,
              processExitCode, net, main>>

\* the call goes on as w: when it has returned or thrown, its result is the
\* output
resume(w) ==
  /\ walk' = <<w>>
  /\ output' = IF w.at = "returned" THEN <<w.result>> ELSE output

\* Config.findWorkspaceRoot(initial), up to await fs.exists(current)
FindWorkspaceRoot ==
  /\ walk = <<>>
  /\ walk' = <<[at |-> "exists", current |-> Len(input.initial), registry |-> 1,
                changed |-> FALSE, result |-> ReturnedNull]>>
  /\ UNCHANGED <<input, output>>
  /\ StepWalk

\* fs.exists(current) answers: the folderMissing error, or the first round of
\* the loop up to the fs.exists of tryManifest
ExistsAnswers ==
  /\ walk # <<>> /\ walk[1].at = "exists"
  /\ resume(IF input.exists THEN [walk[1] EXCEPT !.at = "find"]
            ELSE [walk[1] EXCEPT !.at = "returned", !.result = Thrown])
  /\ UNCHANGED input
  /\ StepWalk

\* findManifest: the fs.exists(loc) of tryManifest answers for the file of
\* the registry asked: when it is there, up to await this.readJson(loc); when
\* not, up to the fs.exists of the next registry, and after the last registry
\* the round goes on with manifest null
TryManifest ==
  /\ walk # <<>> /\ walk[1].at = "find"
  /\ LET k == walk[1].current + 1
     IN  resume(IF fileExists(input.manifests[k], input.files[k], walk[1].registry)
                THEN [walk[1] EXCEPT !.at = "read"]
                ELSE IF walk[1].registry < Len(RegistryFilenames)
                     THEN [walk[1] EXCEPT !.registry = @ + 1]
                     ELSE loopRound(walk[1], input.initial, NoManifest))
  /\ UNCHANGED input
  /\ StepWalk

\* tryManifest: readJson(loc) answers with the manifest, or fails when the
\* file is there no more
ReadJson ==
  /\ walk # <<>> /\ walk[1].at = "read"
  /\ LET k == walk[1].current + 1
     IN  resume(IF fileExists(input.manifests[k], input.files[k], walk[1].registry)
                THEN loopRound(walk[1], input.initial, input.manifests[k])
                ELSE [walk[1] EXCEPT !.at = "returned", !.result = ThrownENOENT])
  /\ UNCHANGED input
  /\ StepWalk

\* while the call is suspended another process rewrites, removes or renames
\* the manifest file of the directory at depth k: the directory holds manifest
\* under the name file; once in a call
TreeChanges(k, manifest, file) ==
  /\ walk # <<>> /\ walk[1].at \in {"exists", "find", "read"}
  /\ ~walk[1].changed
  /\ k \in 0..Len(input.initial)
  /\ IF manifest = NoManifest
     THEN input.manifests[k + 1] # NoManifest /\ file = input.files[k + 1]
     ELSE input.manifests[k + 1] # manifest \/ input.files[k + 1] # file
  /\ input' = [input EXCEPT !.manifests[k + 1] = manifest, !.files[k + 1] = file]
  /\ walk' = <<[walk[1] EXCEPT !.changed = TRUE]>>
  /\ UNCHANGED output
  /\ StepWalk

NextWorkspaceRoot ==
  \/ FindWorkspaceRoot
  \/ ExistsAnswers
  \/ TryManifest
  \/ ReadJson
  \/ \E k \in 0..MaxDepth, manifest \in DirManifests,
          r \in DOMAIN RegistryFilenames :
       TreeChanges(k, manifest, RegistryFilenames[r])

SpecWorkspaceRoot == InitWorkspaceRoot /\ [][NextWorkspaceRoot]_vars

\* no file the call has read or will read was changed while it was suspended
unchangedTree == walk # <<>> /\ ~walk[1].changed

\* the depths of the directories on the way up whose manifest has a
\* workspaces field with packages
withPackages(in) ==
  {k \in 0..Len(in.initial) :
     /\ in.manifests[k + 1] # NoManifest
     /\ in.manifests[k + 1][1].workspaces.hasPackages}

\* the directory at depth k qualifies: it has workspaces packages, and the
\* path from it to initial is empty or matches one of them
qualifies(in, k) ==
  /\ k \in withPackages(in)
  /\ \/ k = Len(in.initial)
     \/ \E g \in 1..Len(in.manifests[k + 1][1].workspaces.packages) :
          globMatches(in.manifests[k + 1][1].workspaces.packages[g],
                      relative(k, in.initial))

\* the deepest of a non-empty set of depths
nearest(ks) == CHOOSE k \in ks : \A j \in ks : j <= k

\* C25 as stated: for an existing folder in a tree that is not changed during
\* the call the result is the nearest directory
\* that qualifies, and null only when no directory on the way up qualifies
C25_NearestQualifyingDirectory ==
  (output # <<>> /\ input.exists /\ unchangedTree) =>
    LET ks == {k \in 0..Len(input.initial) : qualifies(input, k)}
    IN  output[1] = IF ks = {} THEN ReturnedNull
                    ELSE Returned(SubSeq(input.initial, 1, nearest(ks)))

\* C25 amended: in a tree that is not changed during the call
\* the search stops at the nearest directory whose manifest has
\* workspaces packages: the result is that directory when it qualifies, and
\* null when it does not or when no directory has workspaces packages
C25_NearestWorkspacesDirectoryDecides ==
  (output # <<>> /\ input.exists /\ unchangedTree) =>
    LET ks == withPackages(input)
    IN  output[1] = IF ks # {} /\ qualifies(input, nearest(ks))
                    THEN Returned(SubSeq(input.initial, 1, nearest(ks)))
                    ELSE ReturnedNull

\* C25 witness: the folder's parent has workspaces packages that do not match
\* it, the filesystem root has some that do, and the result is null
C25_Witness ==
  /\ output # <<>> /\ input.exists /\ unchangedTree
  /\ Len(input.initial) = 2
  /\ withPackages(input) = {0, 1}
  /\ qualifies(input, 0) /\ ~qualifies(input, 1)
  /\ output[1] = ReturnedNull

(* ------------------------------------------------------------------ *)
(* SpecWorkspaces: Config.resolveWorkspaces(root, rootManifest)         *)
(* ------------------------------------------------------------------ *)

\* the number of folders below the workspace root
MaxFolders == 2

FolderNames == <<"a", "b", "c", "d">>

\* the folders below the root, by name
Folders == {FolderNames[i] : i \in 1..MaxFolders}

\* names and versions of workspace manifests; <<>> is a missing field
NameW1 == <<"w", "1">>
NameW2 == <<"w", "2">>

\* what a folder below the root holds: no manifest file, or a manifest with
\* or without a name and a version
FolderManifests ==
  { NoManifest } \cup
  { <<[name |-> n, version |-> v]>> : n \in {<<>>, NameW1, NameW2}, v \in {<<>>, V100} }

\* the root manifests: private or not, with workspaces absent, [], ['*'],
\* ['b'], ['*', 'b'] or {nohoist: [..]}
RootManifests ==
  { [private |-> pr, workspaces |-> w] :
      pr \in BOOLEAN,
      w \in {WsAbsent, WsArray(<<>>), WsArray(<<GlobStarOne>>), WsArray(<<GlobB>>),
             WsArray(<<GlobStarOne, GlobB>>), WsNohoist} }

\* Config.getWorkspaces(manifest, shouldThrow = true): undefined is <<>>
getWorkspaces(config, manifest) ==
  IF ~config.workspacesEnabled THEN [threw |-> FALSE, ws |-> <<>>]
  ELSE LET ws == extractWorkspaces(<<manifest>>)
       IN  IF ws = <<>> THEN [threw |-> FALSE, ws |-> <<>>]
           ELSE LET packagesError ==
                      ws[1].hasPackages /\ Len(ws[1].packages) > 0 /\ ~manifest.private
                    nohoistError ==
                      /\ ~packagesError
                      /\ manifest.workspaces = WsNohoist
                      /\ config.workspacesNohoistEnabled
                      /\ ~manifest.private
                IN  IF packagesError \/ nohoistError
                    THEN [threw |-> TRUE, ws |-> <<>>]
                    ELSE [threw |-> FALSE, ws |-> ws]

\* fs.glob(pattern + '/+(package.json|yarn.json)', {cwd: root}): the manifest
\* files of either name in the folders the pattern matches, each as its
\* folder and its file name, in alphabetical order
glob(in, pattern) ==
  LET matched == SelectSeq(SubSeq(FolderNames, 1, MaxFolders),
                           LAMBDA f : in.tree[f] # NoManifest /\ globMatches(pattern, <<f>>))
  IN  [k \in 1..Len(matched) |-> <<matched[k], in.files[matched[k]]>>]

RECURSIVE globAll(_, _)
\* new Set([].concat(...files)): the files of the answers from the one at i
\* on, in the order of the patterns, every file once, in order of first match
globAll(answers, i) ==
  IF i > Len(answers) THEN <<>>
  ELSE LET rest == globAll(answers, i + 1)
           here == answers[i].files
       IN  here \o SelectSeq(rest, LAMBDA f : \A j \in 1..Len(here) : here[j] # f)

\* the body of the loop over the matched files, for the folder loc
workspaceStep(acc, loc, manifest) ==
  IF acc.threw THEN acc
  ELSE IF manifest = NoManifest THEN acc
  ELSE IF manifest[1].name = <<>> \/ manifest[1].version = <<>>
       THEN [acc EXCEPT !.warned = @ \cup {loc}]
  ELSE IF manifest[1].name \in DOMAIN acc.workspaces
       THEN [acc EXCEPT !.threw = TRUE]
       ELSE [acc EXCEPT !.workspaces = @ @@ (manifest[1].name :> loc)]

NoWorkspaces == [threw |-> FALSE, workspaces |-> <<>>, warned |-> {}]

\* Config.resolveWorkspaces(root, rootManifest) up to its first await:
\* workspaces maps a name to the folder of its manifest, warned holds the
\* folders a warning was given for; the globs are those fs.glob is called with
resolveWorkspaces(in) ==
  IF ~in.config.workspacesEnabled
  THEN [at |-> "returned", result |-> NoWorkspaces, globs |-> <<>>]
  ELSE LET got == getWorkspaces(in.config, in.rootManifest)
       IN  IF got.threw
           THEN [at |-> "returned", result |-> [NoWorkspaces EXCEPT !.threw = TRUE],
                 globs |-> <<>>]
           ELSE [at |-> "glob", result |-> NoWorkspaces,
                 globs |-> IF got.ws # <<>> /\ got.ws[1].hasPackages
                           THEN got.ws[1].packages ELSE <<>>]

\* the for loop over the matched files goes on with the file at i: after the
\* last file, or when the body has thrown, the call ends
nextFile(w) ==
  IF w.result.threw \/ w.i > Len(w.files) THEN [w EXCEPT !.at = "returned"]
  ELSE [w EXCEPT !.at = "find", !.registry = 1]

InitWorkspaces ==
  /\ OtherIdle
  /\ InitResolver
  /\ cache = <<>>
  /\ resolutions = <<>>
  /\ aDep = PatC1
  /\ deps = <<>>
  /\ isFlat = FALSE
  /\ rootIdx = 0
  /\ phase = "idle"
  /\ ops = 0
  /\ input \in [config : [workspacesEnabled : BOOLEAN, workspacesNohoistEnabled : BOOLEAN],
                rootManifest : RootManifests,
                tree : [Folders -> FolderManifests],
                files : {[f \in Folders |-> RegistryFilenames[r]] :
                           r \in DOMAIN RegistryFilenames}]
  /\ output = <<>>

\* Config.resolveWorkspaces(root, rootManifest), up to await Promise.all of
\* the globs
ResolveWorkspaces ==
  /\ walk = <<>>
  /\ LET w == resolveWorkspaces(input)
     IN  resume([at |-> w.at, result |-> w.result, globs |-> w.globs,
                 answers |-> [g \in 1..Len(w.globs) |-> [done |-> FALSE, files |-> <<>>]],
                 files |-> <<>>, i |-> 1, registry |-> 1, changed |-> FALSE])
  /\ UNCHANGED input
  /\ StepWalk

\* one fs.glob of the Promise.all answers, in any order, with the manifest
\* files that are there now (with no pattern Promise.all resolves at once);
\* after the last answer the loop over the files runs up to the fs.exists of
\* tryManifest for the first of them
GlobAnswers ==
  /\ walk # <<>> /\ walk[1].at = "glob"
  /\ \E g \in 0..Len(walk[1].globs) :
       /\ IF walk[1].globs = <<>> THEN g = 0
          ELSE g >= 1 /\ ~walk[1].answers[g].done
       /\ LET answers == IF g = 0 THEN walk[1].answers
                         ELSE [walk[1].answers EXCEPT
                                 ![g] = [done |-> TRUE,
                                         files |-> glob(input, walk[1].globs[g])]]
              w == [walk[1] EXCEPT !.answers = answers]
          IN  resume(IF \A k \in 1..Len(answers) : answers[k].done
                     THEN nextFile([w EXCEPT !.files = globAll(answers, 1)])
                     ELSE w)
  /\ UNCHANGED input
  /\ StepWalk

\* findManifest(loc, false): the fs.exists(loc) of tryManifest answers for
\* the file of the registry asked: when it is there, up to await
\* this.readJson(loc); when not, up to the fs.exists of the next registry, and
\* after the last registry the loop continues with the next file
TryWorkspaceManifest ==
  /\ walk # <<>> /\ walk[1].at = "find"
  /\ LET loc == walk[1].files[walk[1].i][1]
     IN  resume(IF fileExists(input.tree[loc], input.files[loc], walk[1].registry)
                THEN [walk[1] EXCEPT !.at = "read"]
                ELSE IF walk[1].registry < Len(RegistryFilenames)
                     THEN [walk[1] EXCEPT !.registry = @ + 1]
                     ELSE nextFile([walk[1] EXCEPT !.i = @ + 1]))
  /\ UNCHANGED input
  /\ StepWalk

\* tryManifest: readJson(loc) answers with the manifest and the body of the
\* loop is run, or fails when the file is there no more
ReadWorkspaceManifest ==
  /\ walk # <<>> /\ walk[1].at = "read"
  /\ LET loc == walk[1].files[walk[1].i][1]
     IN  resume(IF fileExists(input.tree[loc], input.files[loc], walk[1].registry)
                THEN nextFile([walk[1] EXCEPT
                                 !.result = workspaceStep(@, loc, input.tree[loc]),
                                 !.i = @ + 1])
                ELSE [walk[1] EXCEPT !.at = "returned", !.result.threw = TRUE])
  /\ UNCHANGED input
  /\ StepWalk

\* while the call is suspended another process rewrites, removes or renames
\* the manifest file of a folder: the folder holds manifest under the name
\* file; once in a call
FolderChanges(f, manifest, file) ==
  /\ walk # <<>> /\ walk[1].at \in {"glob", "find", "read"}
  /\ ~walk[1].changed
  /\ IF manifest = NoManifest
     THEN input.tree[f] # NoManifest /\ file = input.files[f]
     ELSE input.tree[f] # manifest \/ input.files[f] # file
  /\ input' = [input EXCEPT !.tree[f] = manifest, !.files[f] = file]
  /\ walk' = <<[walk[1] EXCEPT !.changed = TRUE]>>
  /\ UNCHANGED output
  /\ StepWalk

NextWorkspaces ==
  \/ ResolveWorkspaces
  \/ GlobAnswers
  \/ TryWorkspaceManifest
  \/ ReadWorkspaceManifest
  \/ \E f \in Folders, manifest \in FolderManifests,
          r \in DOMAIN RegistryFilenames :
       FolderChanges(f, manifest, RegistryFilenames[r])

SpecWorkspaces == InitWorkspaces /\ [][NextWorkspaces]_vars

\* the folders matched by one of the workspaces.packages globs of the root
matchedFolders(in) ==
  {f \in Folders :
     /\ in.tree[f] # NoManifest
     /\ \E g \in 1..Len(in.rootManifest.workspaces.packages) :
          globMatches(in.rootManifest.workspaces.packages[g], <<f>>)}

\* the matched folders whose manifest has no name or no version
incomplete(in) ==
  {f \in matchedFolders(in) : in.tree[f][1].name = <<>> \/ in.tree[f][1].version = <<>>}

\* C26: when workspaces are enabled, no folder is changed during the call
\* and a matched workspace manifest has no
\* name or no version, resolveWorkspaces fails; a map it returns has an entry
\* for every matched workspace
C26_IncompleteWorkspaceFails ==
  (output # <<>> /\ input.config.workspacesEnabled /\ unchangedTree) =>
    /\ incomplete(input) # {} => output[1].threw
    /\ ~output[1].threw =>
         \A f \in matchedFolders(input) :
           \E n \in DOMAIN output[1].workspaces : output[1].workspaces[n] = f

(* ------------------------------------------------------------------ *)
(* SpecOrder: getTopologicalManifests and getLevelOrderManifests        *)
(* ------------------------------------------------------------------ *)

\* the number of manifests of a resolved graph with any dependency lists
MaxManifests == 3

\* the number of manifests of a resolved graph whose manifests have at most
\* one dependency each
MaxChain == 5

NameE == <<"e">>
NameF == <<"f">>
PatE == <<"e", "@", "^", "1", ".", "0", ".", "0">>
PatF == <<"f", "@", "^", "1", ".", "0", ".", "0">>

NodeNames == <<NameA, NameB, NameC, NameD, NameE, NameF>>
NodePatterns == <<PatA, PatB, PatC1, PatD, PatE, PatF>>

\* the dependency lists over the first n patterns with at most most entries,
\* in the order of the patterns
DependencyLists(n, most) ==
  LET picked(S) == SelectSeq(SubSeq(NodePatterns, 1, n), LAMBDA q : q \in S)
  IN  {picked(S) : S \in {T \in SUBSET {NodePatterns[k] : k \in 1..n} :
                            Cardinality(T) <= most}}

\* the resolver after a resolve of n packages: manifest k has reference k,
\* one pattern, and the dependencies depsOf[k]
ResolvedGraph(n, depsOf) ==
  /\ patterns = [q \in {NodePatterns[k] : k \in 1..n} |->
                   CHOOSE k \in 1..n : NodePatterns[k] = q]
  /\ patternsByPackage = [nm \in {NodeNames[k] : k \in 1..n} |->
                            <<NodePatterns[CHOOSE k \in 1..n : NodeNames[k] = nm]>>]
  /\ manifests = [k \in 1..n |->
                    [newManifest(NodeNames[k], V100, TRUE) EXCEPT !.ref = k]]
  /\ refs = [k \in 1..n |->
               [newReference(NodeNames[k], V100)
                  EXCEPT !.patterns = <<NodePatterns[k]>>,
                         !.dependencies = depsOf[k]]]

\* skip.add(pkg) without the addition
skipAddNothing(skip, pkg) == skip

\* skip.add(pkg)
skipAdd(skip, pkg) == skip \cup {pkg}

\* pkgs.add(pkg) with the new manifest put first
pkgsAddFirst(pkgs, pkg) == IF Contains(pkgs, pkg) THEN pkgs ELSE <<pkg>> \o pkgs

\* pkgs.add(pkg): a Set iterates in insertion order
pkgsAdd(pkgs, pkg) == IF Contains(pkgs, pkg) THEN pkgs ELSE Append(pkgs, pkg)

RECURSIVE dependencyCount(_, _)
\* the number of dependency patterns of the references 1..r
dependencyCount(s, r) ==
  IF r = 0 THEN 0 ELSE Len(s.refs[r].dependencies) + dependencyCount(s, r - 1)

\* a walk that handles each manifest once runs its loop body at most once per
\* seed pattern and once per dependency pattern
iterationLimit(s, seedPatterns) == Len(seedPatterns) + dependencyCount(s, Len(s.refs))

\* pkgs and skip as the functions create them; visits counts for each manifest
\* how often it got past the skip test, steps counts the loop iterations, and
\* a walk that goes beyond limit iterations is cut off and marked
NewWalk(s, seedPatterns) ==
  [pkgs |-> <<>>, skip |-> {}, visits |-> [m \in 1..Len(s.manifests) |-> 0],
   steps |-> 0, limit |-> iterationLimit(s, seedPatterns), cutOff |-> FALSE]

\* the start of a loop iteration for a manifest not in skip
visit(acc, pkg) ==
  [acc EXCEPT !.skip = skipAdd(@, pkg), !.visits[pkg] = @ + 1]

RECURSIVE topologicalAdd(_, _, _, _)
\* add(seedPatterns) of getTopologicalManifests, from the i-th pattern on
topologicalAdd(s, acc, seedPatterns, i) ==
  IF acc.cutOff \/ i > Len(seedPatterns) THEN acc
  ELSE IF acc.steps >= acc.limit + 1 THEN [acc EXCEPT !.cutOff = TRUE]
  ELSE LET pkg == getResolvedPattern(s, seedPatterns[i])
           a0 == [acc EXCEPT !.steps = @ + 1]
       IN  IF pkg \in a0.skip THEN topologicalAdd(s, a0, seedPatterns, i + 1)
           ELSE LET a1 == visit(a0, pkg)
                    a2 == topologicalAdd(s, a1, s.refs[s.manifests[pkg].ref].dependencies, 1)
                    a3 == [a2 EXCEPT !.pkgs = pkgsAdd(@, pkg)]
                IN  topologicalAdd(s, a3, seedPatterns, i + 1)

\* PackageResolver.getTopologicalManifests(seedPatterns)
getTopologicalManifests(s, seedPatterns) ==
  topologicalAdd(s, NewWalk(s, seedPatterns), seedPatterns, 1)

RECURSIVE levelCollect(_, _, _, _)
\* the first loop of add(seedPatterns) of getLevelOrderManifests
levelCollect(s, st, seedPatterns, i) ==
  IF st.acc.cutOff \/ i > Len(seedPatterns) THEN st
  ELSE IF st.acc.steps >= st.acc.limit + 1 THEN [st EXCEPT !.acc.cutOff = TRUE]
  ELSE LET pkg == getResolvedPattern(s, seedPatterns[i])
           a0 == [st.acc EXCEPT !.steps = @ + 1]
       IN  IF pkg \in a0.skip
           THEN levelCollect(s, [st EXCEPT !.acc = a0], seedPatterns, i + 1)
           ELSE LET a1 == visit(a0, pkg)
                    a2 == [a1 EXCEPT !.pkgs = pkgsAdd(@, pkg)]
                IN  levelCollect(s, [acc |-> a2,
                                     refs |-> Append(st.refs, s.manifests[pkg].ref)],
                                 seedPatterns, i + 1)

RECURSIVE levelAdd(_, _, _)
RECURSIVE levelDescend(_, _, _, _)
\* the second loop of add(seedPatterns): add(ref.dependencies) for every ref
levelDescend(s, acc, collected, j) ==
  IF acc.cutOff \/ j > Len(collected) THEN acc
  ELSE levelDescend(s, levelAdd(s, acc, s.refs[collected[j]].dependencies),
                    collected, j + 1)

\* add(seedPatterns) of getLevelOrderManifests
levelAdd(s, acc, seedPatterns) ==
  LET st == levelCollect(s, [acc |-> acc, refs |-> <<>>], seedPatterns, 1)
  IN  levelDescend(s, st.acc, st.refs, 1)

\* PackageResolver.getLevelOrderManifests(seedPatterns)
getLevelOrderManifests(s, seedPatterns) ==
  levelAdd(s, NewWalk(s, seedPatterns), seedPatterns)

\* the seed patterns: the first pattern, alone or followed by another one
SeedChoices(n) ==
  {<<PatA>>} \cup {<<PatA, NodePatterns[k]>> : k \in 2..n}

OrderIdle ==
  /\ OtherIdle
  /\ cache = <<>>
  /\ threw = FALSE
  /\ flat = FALSE
  /\ resolutions = <<>>
  /\ delayQueue = <<>>
  /\ fetchingPatterns = {}
  /\ usedRegistries = {}
  /\ delayedResolveQueue = <<>>
  /\ tasks = <<>>
  /\ log = <<>>
  /\ aDep = PatC1
  /\ deps = <<>>
  /\ isFlat = FALSE
  /\ rootIdx = 0
  /\ phase = "idle"
  /\ ops = 0
  /\ output = <<>>

\* a resolved graph of MaxManifests packages, cycles and self-dependencies
\* included
InitOrder ==
  /\ OrderIdle
  /\ \E depsOf \in [1..MaxManifests -> DependencyLists(MaxManifests, MaxManifests)] :
       ResolvedGraph(MaxManifests, depsOf)
  /\ input \in SeedChoices(MaxManifests)

\* a resolved graph of MaxChain packages with at most one dependency each
InitChains ==
  /\ OrderIdle
  /\ \E depsOf \in [1..MaxChain -> DependencyLists(MaxChain, 1)] :
       ResolvedGraph(MaxChain, depsOf)
  /\ input \in SeedChoices(2)

GetTopologicalManifests ==
  /\ output = <<>>
  /\ output' = <<[fn |-> "topological"] @@ getTopologicalManifests(Cur, input)>>
  /\ UNCHANGED <<resolverVars, ops, input, findVars, initVars, extraVars>>

GetLevelOrderManifests ==
  /\ output = <<>>
  /\ output' = <<[fn |-> "level"] @@ getLevelOrderManifests(Cur, input)>>
  /\ UNCHANGED <<resolverVars, ops, input, findVars, initVars, extraVars>>

NextOrder == GetTopologicalManifests \/ GetLevelOrderManifests

SpecOrder == InitOrder /\ [][NextOrder]_vars

SpecChains == InitChains /\ [][NextOrder]_vars

\* the manifests the seed patterns resolve to
seedManifests == {patterns[input[i]] : i \in 1..Len(input)}

\* the manifests that manifest m depends on
dependenciesOfManifest(m) ==
  {patterns[refs[manifests[m].ref].dependencies[i]] :
     i \in 1..Len(refs[manifests[m].ref].dependencies)}

RECURSIVE within(_)
\* the manifests at dependency distance n or less from the seed patterns
within(n) ==
  IF n = 0 THEN seedManifests
  ELSE within(n - 1) \cup UNION {dependenciesOfManifest(m) : m \in within(n - 1)}

\* the manifests reachable from the seed patterns
reachable == within(Len(manifests))

\* the dependency distance of a reachable manifest
distance(m) == CHOOSE n \in 0..Len(manifests) : m \in within(n) /\ \A k \in 0..(n - 1) : m \notin within(k)

\* the place of manifest m in the emitted list, 0 when it is not emitted
placeOf(pkgs, m) ==
  IF Contains(pkgs, m) THEN CHOOSE i \in 1..Len(pkgs) : pkgs[i] = m ELSE 0

\* C27: getLevelOrderManifests emits in breadth-first level order: a manifest
\* at a smaller dependency distance from the seeds is never emitted after one
\* at a greater distance
C27_LevelOrderIsBreadthFirst ==
  (output # <<>> /\ output[1].fn = "level") =>
    \A i, j \in 1..Len(output[1].pkgs) :
      i < j => distance(output[1].pkgs[i]) <= distance(output[1].pkgs[j])

\* the dependency graph has no cycle: no manifest is reachable from its own
\* dependencies
RECURSIVE below(_, _)
below(m, n) ==
  IF n = 0 THEN dependenciesOfManifest(m)
  ELSE below(m, n - 1) \cup UNION {dependenciesOfManifest(d) : d \in below(m, n - 1)}

acyclic == \A m \in 1..Len(manifests) : m \notin below(m, Len(manifests))

\* C28: on an acyclic graph getTopologicalManifests emits every manifest after
\* all the manifests it depends on
C28_DependenciesAreEmittedFirst ==
  (output # <<>> /\ output[1].fn = "topological" /\ acyclic) =>
    \A m \in 1..Len(manifests) :
      Contains(output[1].pkgs, m) =>
        \A d \in dependenciesOfManifest(m) :
          /\ Contains(output[1].pkgs, d)
          /\ placeOf(output[1].pkgs, d) < placeOf(output[1].pkgs, m)

\* C28 witness: an acyclic graph in which the first seed depends on two
\* manifests, one of which depends on the other, all emitted
C28_Witness ==
  /\ output # <<>> /\ output[1].fn = "topological" /\ acyclic
  /\ Len(output[1].pkgs) = 3
  /\ Cardinality(dependenciesOfManifest(1)) = 2
  /\ \E d \in dependenciesOfManifest(1) : dependenciesOfManifest(d) # {}

\* C29: both walks end on every resolved graph, cyclic ones included, without
\* running their loop body more often than once per seed and per dependency
\* pattern; each manifest gets past the skip test at most once; and the
\* manifests emitted are exactly those reachable from the seed patterns, each
\* once
C29_WalksEndAndEmitTheReachable ==
  output # <<>> =>
    /\ ~output[1].cutOff
    /\ output[1].steps <= output[1].limit
    /\ \A m \in 1..Len(manifests) : output[1].visits[m] <= 1
    /\ {output[1].pkgs[i] : i \in 1..Len(output[1].pkgs)} = reachable
    /\ Len(output[1].pkgs) = Cardinality(reachable)

\* C29 witness: a level-order walk over a cycle through all the manifests that
\* ran into the skip test
C29_Witness ==
  /\ output # <<>> /\ output[1].fn = "level"
  /\ ~acyclic
  /\ \A m \in 1..Len(manifests) : m \in below(m, Len(manifests))
  /\ reachable = 1..Len(manifests)
  /\ output[1].steps > Len(output[1].pkgs)

(* ------------------------------------------------------------------ *)
(* C30: optimizeResolutions and protected patterns                      *)
(* ------------------------------------------------------------------ *)

\* the pattern is resolved and is exempt from optimisation: it has a lockfile
\* entry, or its manifest has a workspace remote
protected(p) ==
  /\ p \in DOMAIN patterns
  /\ \/ hasLocked(cache, p)
     \/ manifests[patterns[p]].remoteType = "workspace"

\* C30: a step that calls optimizeResolutions leaves every pattern that has a
\* lockfile entry or a workspace manifest bound to the manifest it was bound to
C30_OptimizeKeepsProtectedBindings ==
  [][total(log', "optimize") > total(log, "optimize") =>
       \A p \in DOMAIN patterns :
         protected(p) => (p \in DOMAIN patterns' /\ patterns'[p] = patterns[p])]_vars

(* ------------------------------------------------------------------ *)
(* SpecFrame: the operations of the resolver, up to MaxFrameOps calls   *)
(* ------------------------------------------------------------------ *)

\* the number of resolver operations of a run of SpecFrame
MaxFrameOps == 4

NextFrame == ops < MaxFrameOps /\ Next

SpecFrame == Init /\ [][NextFrame]_vars

\* the step is a call of optimizeResolutions(name)
optimizes(name) ==
  count(log', <<"optimize", name>>) > count(log, <<"optimize", name>>)

\* the patterns of the name that optimizeResolutions may collapse: one per
\* manifest, resolved, without lockfile entry and without workspace remote
collapsiblePatterns(name) ==
  SelectSeq(dedupePatterns(Cur, byPackage(Cur, name)),
            LAMBDA q : q \in DOMAIN patterns /\ ~protected(q))

\* some discovered version satisfies the range of every collapsible pattern
reconcilable(name) ==
  \E i \in 1..Len(collapsiblePatterns(name)) :
    \A j \in 1..Len(collapsiblePatterns(name)) :
      semverSatisfies(manifests[patterns[collapsiblePatterns(name)[i]]].version,
                      normalizePattern(collapsiblePatterns(name)[j]).range)

\* C31: a call of optimizeResolutions for a name with fewer than two
\* collapsible patterns, or whose collapsible patterns have no discovered
\* version that satisfies all their ranges, leaves patterns, patternsByPackage
\* and every Reference as they were
C31_IrreconcilableLeftAlone ==
  [][\A name \in OpNames :
       (optimizes(name)
          /\ (Len(collapsiblePatterns(name)) < 2 \/ ~reconcilable(name)))
       => (patterns' = patterns /\ patternsByPackage' = patternsByPackage
             /\ refs' = refs)]_vars

\* C31 witness: optimizeResolutions('c') has run on two collapsible patterns
\* bound to versions 1.0.5 and 1.1.0, neither of which satisfies both ranges
C31_Witness ==
  /\ count(log, <<"optimize", NameC>>) = 1
  /\ ~threw
  /\ cache = <<>>
  /\ Len(collapsiblePatterns(NameC)) = 2
  /\ ~reconcilable(NameC)
  /\ DOMAIN patterns = {PatC2, PatC3}
  /\ patterns[PatC2] # patterns[PatC3]

(* ------------------------------------------------------------------ *)
(* C32: updateManifest                                                  *)
(* ------------------------------------------------------------------ *)

\* C32: a call of updateManifest(ref, newPkg) that returns binds every pattern of ref.patterns to
\* newPkg, gives newPkg the name, fresh and prebuiltVariants of the manifest
\* the first pattern of ref was bound to and the reference and remote of ref,
\* and leaves the keys of patterns and patternsByPackage as they were
C32_UpdateManifestRebindsOnly ==
  [][\A r \in 1..Len(refs) :
       (UpdateManifest(r) /\ ~threw') =>
         LET newPkg == Len(manifests) + 1
         IN  /\ \A q \in Range(refs[r].patterns) :
                  q \in DOMAIN patterns' /\ patterns'[q] = newPkg
             /\ manifests'[newPkg].name = manifests[patterns[refs[r].patterns[1]]].name
             /\ manifests'[newPkg].fresh = manifests[patterns[refs[r].patterns[1]]].fresh
             /\ manifests'[newPkg].prebuiltVariants =
                  manifests[patterns[refs[r].patterns[1]]].prebuiltVariants
             /\ manifests'[newPkg].ref = r
             /\ manifests'[newPkg].remoteType = refs[r].remoteType
             /\ DOMAIN patterns' = DOMAIN patterns
             /\ patternsByPackage' = patternsByPackage]_vars

(* ------------------------------------------------------------------ *)
(* C33: removePattern                                                   *)
(* ------------------------------------------------------------------ *)

\* the names under which patternsByPackage lists the pattern
listedUnder(byPkg, q) == {n \in DOMAIN byPkg : Contains(byPkg[n], q)}

\* C33: removePattern(p) on a bound pattern removes p and only p: afterwards
\* p is no key of patterns and is in no list of patternsByPackage, and every
\* other pattern is a key of patterns as before and listed under the same
\* names as before
C33_RemovePatternRemovesOnlyIt ==
  [][\A p \in OpPatterns :
       RemovePattern(p) =>
         /\ p \notin DOMAIN patterns'
         /\ listedUnder(patternsByPackage', p) = {}
         /\ \A q \in OpPatterns \ {p} :
              /\ (q \in DOMAIN patterns) = (q \in DOMAIN patterns')
              /\ listedUnder(patternsByPackage', q) = listedUnder(patternsByPackage, q)]_vars

(* ------------------------------------------------------------------ *)
(* C34: replacePattern                                                  *)
(* ------------------------------------------------------------------ *)

\* C34: after a call replacePattern(old, new) on a resolved pattern that
\* returns, new resolves to the manifest old resolved to, old is no key of
\* patterns unless it is new, and every other pattern the Reference of old
\* listed is still listed by it; old and new may be the same pattern
C34_ReplacePatternKeepsTheOthers ==
  [][\A old \in OpPatterns, new \in OpPatterns :
       (ReplacePattern(old, new) /\ ~threw') =>
         /\ new \in DOMAIN patterns'
         /\ patterns'[new] = patterns[old]
         /\ old # new => old \notin DOMAIN patterns'
         /\ \A q \in Range(refs[manifests[patterns[old]].ref].patterns) \ {old} :
              Contains(refs'[manifests[patterns[old]].ref].patterns, q)]_vars

(* ------------------------------------------------------------------ *)
(* C35: the patterns of a Reference                                     *)
(* ------------------------------------------------------------------ *)

\* C35: no Reference lists the same pattern twice
C35_ReferenceListsPatternOnce ==
  \A r \in 1..Len(refs) :
    \A i, j \in 1..Len(refs[r].patterns) :
      refs[r].patterns[i] = refs[r].patterns[j] => i = j

(* ------------------------------------------------------------------ *)
(* C36: a pin and the requests outside it                               *)
(* ------------------------------------------------------------------ *)

\* init has returned
initReturned == phase = "done" /\ ~threw

\* the pattern was requested through a parent chain a pin applies to, and
\* through one that no pin applies to
requestedInsideAndOutsidePin(p) ==
  /\ \E t \in 1..Len(tasks) :
       tasks[t].req.pattern = p /\ pinOf(Cur, tasks[t].req) # None
  /\ \E t \in 1..Len(tasks) :
       tasks[t].req.pattern = p /\ pinOf(Cur, tasks[t].req) = None

\* C36: when init has returned and a pattern without lockfile entry was
\* requested both inside and outside a pin, the pattern, as the requester
\* outside the pin sees it, resolves to the version normal resolution finds
C36_PinLeavesOutsideRequesterAlone ==
  initReturned =>
    \A p \in DOMAIN patterns :
      (requestedInsideAndOutsidePin(p) /\ ~hasLocked(cache, p)) =>
        manifests[patterns[p]].version = found(p)

(* ------------------------------------------------------------------ *)
(* C37: the file lock after the run                                     *)
(* ------------------------------------------------------------------ *)

\* the outcome of the run of instance i has been handed to the caller of
\* runEventuallyWithFile
outcomeDelivered(i) == pc[i] \in {"done", "failed"}

\* C37: under the file mutex an instance whose run has finished, with success
\* or with failure, has released the lock by the time its outcome is delivered
C37_FileLockReleasedAfterRun ==
  \A i \in Instances :
    (isFile(scopeOf[i]) /\ outcomeDelivered(i)) => held[scopeOf[i]] # i

(* ------------------------------------------------------------------ *)
(* SpecNetwork: the callbacks of runEventuallyWithNetwork in one       *)
(* process, fired in every order the http and net modules allow        *)
(* ------------------------------------------------------------------ *)

\* the calls of startServer in one process, up to this many
MaxServers == 4

Servers == 1..MaxServers

\* the port is bound by the server of another instance
OtherInstance == MaxServers + 1

\* no http.get was made for this server, no socket opened
NoRequest == [state |-> "none", target |-> 0, erred |-> FALSE]
NoSocket == [state |-> "none", target |-> 0]

\* what is left to do when the process does not hold the port
StepNetwork ==
  UNCHANGED <<resolverVars, callVars, findVars, initVars, configVars,
              pc, scopeOf, held, listening, clients, fileVars, stalling, named,
              processExitCode, main, walk>>

\* startServer(): http.createServer(manager) and server.listen(...)
startServer(o) == [o EXCEPT !.servers = Append(@, "binding")]

\* reportServerName(): http.get(connectionOptions, ...), answered by the
\* server that is bound to the port
reportServerName(o, n) ==
  [o EXCEPT !.requests[n] = [state |-> "sent", target |-> o.port, erred |-> FALSE]]

\* waitForTheNetwork(): net.createConnection(connectionOptions)
waitForTheNetwork(o, n) ==
  [o EXCEPT !.sockets[n] = [state |-> "open", target |-> o.port]]

\* killSockets() of server n: server.close() and socket.destroy() for every
\* client
serverClosed(o, n) ==
  [o EXCEPT !.servers[n] = "closed", !.port = IF @ = n THEN 0 ELSE @]

\* resolve(res) or reject(err) of the promise of runEventuallyWithNetwork,
\* which settles once
settle(o, outcome) ==
  IF o.settled = "pending" THEN [o EXCEPT !.settled = outcome] ELSE o

\* a call of startServer can be made
canStart == Len(net.servers) < MaxServers

\* the peer of a connection has gone: it closed its server and destroyed
\* its sockets, or nothing was bound when the connection was made
peerGone(target) == target = 0 \/ net.port # target

\* server.listen: the callback calls run(), the 'error' handler
\* reportServerName()
Listen(n) ==
  /\ n \in 1..Len(net.servers)
  /\ net.servers[n] = "binding"
  /\ net' = IF net.port = 0
            THEN [net EXCEPT !.servers[n] = "running", !.port = n, !.runs = @ + 1]
            ELSE reportServerName([net EXCEPT !.servers[n] = "refused"], n)
  /\ StepNetwork

\* run() of the server that listens settles: killSockets(), then resolve(res)
\* or reject(err)
RunSettles(n, outcome) ==
  /\ n \in 1..Len(net.servers)
  /\ net.servers[n] = "running"
  /\ net' = settle(serverClosed(net, n), outcome)
  /\ StepNetwork

\* the instance that held the port finishes and closes its server
LeaderEnds ==
  /\ net.port = OtherInstance
  /\ net' = [net EXCEPT !.port = 0]
  /\ StepNetwork

\* http.get: the response callback is called, the answer is on its way
Response(n) ==
  /\ net.requests[n].state = "sent"
  /\ ~net.requests[n].erred
  /\ net.port = net.requests[n].target
  /\ net' = [net EXCEPT !.requests[n].state = "responding"]
  /\ StepNetwork

\* request.on('error', () => startServer()): the connection was refused or
\* reset, before the response or while its body was read
RequestError(n) ==
  /\ net.requests[n].state \in {"sent", "responding"}
  /\ ~net.requests[n].erred
  /\ peerGone(net.requests[n].target)
  /\ canStart
  /\ net' = startServer([net EXCEPT !.requests[n].erred = TRUE])
  /\ StepNetwork

\* response.on('end', ...): an answer that parses warns and calls
\* waitForTheNetwork(), one that was cut short rejects with mutexPortBusy
ResponseEnd(n, complete) ==
  /\ net.requests[n].state = "responding"
  /\ ~complete => peerGone(net.requests[n].target)
  /\ net' = IF complete
            THEN waitForTheNetwork([net EXCEPT !.requests[n].state = "ended"], n)
            ELSE settle([net EXCEPT !.requests[n].state = "ended"], "rejected")
  /\ StepNetwork

\* response.on('error', () => startServer()): the response was aborted
ResponseError(n) ==
  /\ net.requests[n].state = "responding"
  /\ peerGone(net.requests[n].target)
  /\ canStart
  /\ net' = startServer([net EXCEPT !.requests[n].state = "aborted"])
  /\ StepNetwork

\* socket.on('close', () => startServer())
SocketClosed(n) ==
  /\ net.sockets[n].state = "open"
  /\ peerGone(net.sockets[n].target)
  /\ canStart
  /\ net' = startServer([net EXCEPT !.sockets[n].state = "closed"])
  /\ StepNetwork

\* new Promise((resolve, reject) => { ...; startServer(); }), with the port
\* free or bound by another instance
InitNetwork ==
  /\ InitResolver
  /\ NoCall
  /\ InitConfig
  /\ InstancesIdle
  /\ main = <<>>
  /\ walk = <<>>
  /\ cache = <<>>
  /\ resolutions = <<>>
  /\ aDep = PatC1
  /\ deps = <<>>
  /\ isFlat = FALSE
  /\ rootIdx = 0
  /\ phase = "idle"
  /\ \E bound \in {0, OtherInstance} :
       net = startServer([servers |-> <<>>,
                          requests |-> [n \in Servers |-> NoRequest],
                          sockets |-> [n \in Servers |-> NoSocket],
                          port |-> bound, runs |-> 0, settled |-> "pending"])

NextNetwork ==
  \/ \E n \in Servers : Listen(n)
  \/ \E n \in Servers, outcome \in {"resolved", "rejected"} : RunSettles(n, outcome)
  \/ LeaderEnds
  \/ \E n \in Servers : Response(n)
  \/ \E n \in Servers : RequestError(n)
  \/ \E n \in Servers, complete \in BOOLEAN : ResponseEnd(n, complete)
  \/ \E n \in Servers : ResponseError(n)
  \/ \E n \in Servers : SocketClosed(n)

SpecNetwork == InitNetwork /\ [][NextNetwork]_vars

\* C38: under the network mutex run() is invoked at most once in a process,
\* in whatever order the 'error' of the server, the 'error' of the request,
\* the 'end' and 'error' of the response and the 'close' of the socket come
C38_RunInvokedAtMostOnce == net.runs <= 1

(* ------------------------------------------------------------------ *)
(* SpecAlias: Lockfile.getLocked over caches with string-valued        *)
(* entries                                                             *)
(* ------------------------------------------------------------------ *)

\* a string-valued entry of the cache: the key it stands for
alias(pattern) == [alias |-> pattern]

\* typeof shrunk === 'string'
isString(shrunk) == "alias" \in DOMAIN shrunk

\* the keys a cache may hold, and a pattern no cache holds
AliasKeys == {PatC1, PatC2, PatC3}
AliasPatterns == AliasKeys \cup {PatD}

\* what a key may hold: an entry object or the string of any pattern
AliasValues == {lockEntry(NameC, V100)} \cup {alias(p) : p \in AliasPatterns}

\* the caches over every subset of the keys
AliasCaches ==
  UNION {[keys -> AliasValues] : keys \in SUBSET AliasKeys}

\* Lockfile.getLocked(pattern) with this.cache = c, as call number depth of
\* the recursion. A chain of more string-valued entries than the cache has keys
\* comes back to a key it has passed and goes round for ever: the recursion,
\* which keeps no record of the keys it has passed, ends when the stack is
\* exhausted, with a RangeError
RECURSIVE Lockfile_getLocked(_, _, _)
Lockfile_getLocked(c, pattern, depth) ==
  IF depth > Cardinality(DOMAIN c) + 1
  THEN [kind |-> "RangeError", entry |-> <<>>, calls |-> depth]
  ELSE IF pattern \notin DOMAIN c
  THEN [kind |-> "undefined", entry |-> <<>>, calls |-> depth]
  ELSE IF isString(c[pattern])
  THEN Lockfile_getLocked(c, c[pattern].alias, depth + 1)
  ELSE [kind |-> "entry", entry |-> explodeEntry(pattern, c[pattern]),
        calls |-> depth]

InitAlias ==
  /\ OtherIdle
  /\ InitResolver
  /\ cache = <<>>
  /\ resolutions = <<>>
  /\ aDep = PatC1
  /\ deps = <<>>
  /\ isFlat = FALSE
  /\ rootIdx = 0
  /\ phase = "idle"
  /\ ops = 0
  /\ output = <<>>
  /\ input \in [cache : AliasCaches, pattern : AliasPatterns]

GetLocked ==
  /\ output = <<>>
  /\ output' = <<Lockfile_getLocked(input.cache, input.pattern, 1)>>
  /\ UNCHANGED <<resolverVars, ops, input, findVars, initVars, extraVars>>

NextAlias == GetLocked

SpecAlias == InitAlias /\ [][NextAlias]_vars

\* C39: getLocked returns, with an entry object or with undefined, for every
\* cache content, also when string-valued entries refer to each other or to
\* themselves
C39_GetLockedEndsInEntryOrNone ==
  output # <<>> => output[1].kind \in {"entry", "undefined"}

(* ------------------------------------------------------------------ *)
(* SpecExit: main of one process, from the choice of the mutex to the  *)
(* exit code, without mutex, under the lock file and under the port    *)
(* ------------------------------------------------------------------ *)

\* runEventuallyWithFile: run().then(() => new Promise(resolve =>
\* release(resolve))): the value of run() is dropped, and release calls its
\* callback without an argument
released(res) == Undefined

\* what a step of main leaves alone
StepExit ==
  UNCHANGED <<resolverVars, callVars, findVars, initVars, configVars,
              pc, scopeOf, held, listening, clients, fileVars, stalling, named,
              processExitCode, net, walk>>

\* main: the mutex option picks runEventuallyWithFile,
\* runEventuallyWithNetwork or run
Main ==
  /\ main.stage = "start"
  /\ main' = [main EXCEPT !.stage = CASE main.mutex = "file" -> "locking"
                                      [] main.mutex = "network" -> "binding"
                                      [] OTHER -> "running"]
  /\ StepExit

\* runEventuallyWithFile: the callback of lockfile.lock, which warns
\* 'waitingInstance' when the lock is held
LockAttempt ==
  /\ main.stage = "locking"
  /\ main' = [main EXCEPT !.stage = IF main.busy THEN "sleeping" ELSE "running",
                          !.warned = @ \/ main.busy]
  /\ StepExit

\* runEventuallyWithFile: the timeout of 200 ms
RetryTimeout ==
  /\ main.stage = "sleeping"
  /\ main' = [main EXCEPT !.stage = "locking"]
  /\ StepExit

\* startServer: the listen callback calls run(); when the port is bound the
\* process asks for the name of its holder, warns 'waitingNamedInstance' and
\* waits on a socket to it
ListenAttempt ==
  /\ main.stage = "binding"
  /\ main' = [main EXCEPT !.stage = IF main.busy THEN "waiting" ELSE "running",
                          !.warned = @ \/ main.busy]
  /\ StepExit

\* waitForTheNetwork: the socket closes and startServer is called again
WaitEnds ==
  /\ main.stage = "waiting"
  /\ ~main.busy
  /\ main' = [main EXCEPT !.stage = "binding"]
  /\ StepExit

\* the instance that held the lock file or the port finishes
HolderEnds ==
  /\ main.busy
  /\ main' = [main EXCEPT !.busy = FALSE]
  /\ StepExit

\* run() resolves with the value the command returned: without mutex and
\* under the port the value goes to exit, under the lock file release is
\* called first
CommandResolves ==
  /\ main.stage = "running"
  /\ main' = [main EXCEPT !.stage = IF main.mutex = "file" THEN "releasing"
                                    ELSE "resolved",
                          !.value = main.returned]
  /\ StepExit

\* run() rejects with an error of the class class whose EXIT_CODE is code, or
\* is not set
CommandRejects(class, code) ==
  /\ main.stage = "running"
  /\ main' = [main EXCEPT !.stage = "rejected", !.error = class, !.value = code]
  /\ StepExit

\* release(resolve): the promise of runEventuallyWithFile resolves
Released ==
  /\ main.stage = "releasing"
  /\ main' = [main EXCEPT !.stage = "resolved", !.value = released(main.value)]
  /\ StepExit

\* main: .then(exit)
ThenExit ==
  /\ main.stage = "resolved"
  /\ main' = [main EXCEPT !.stage = "succeeded", !.exitCode = exit(main.value)]
  /\ StepExit

\* main: .catch(err => ...)
CatchExit ==
  /\ main.stage = "rejected"
  /\ main' = [main EXCEPT !.stage = "failed",
                          !.exitCode = catchExit(main.error, main.value)]
  /\ StepExit

InitExit ==
  /\ InitResolver
  /\ NoCall
  /\ InitConfig
  /\ InstancesIdle
  /\ net = <<>>
  /\ walk = <<>>
  /\ cache = <<>>
  /\ resolutions = <<>>
  /\ aDep = PatC1
  /\ deps = <<>>
  /\ isFlat = FALSE
  /\ rootIdx = 0
  /\ phase = "idle"
  /\ main \in [mutex : {"none", "file", "network"},
               busy : BOOLEAN,
               warned : {FALSE},
               returned : ExitCodes \cup {Undefined},
               stage : {"start"},
               error : {"none"},
               value : {Undefined},
               exitCode : {Undefined}]

NextExit ==
  \/ Main
  \/ LockAttempt
  \/ RetryTimeout
  \/ ListenAttempt
  \/ WaitEnds
  \/ HolderEnds
  \/ CommandResolves
  \/ \E class \in ErrorClasses, code \in ExitCodes \cup {Undefined} :
       CommandRejects(class, code)
  \/ Released
  \/ ThenExit
  \/ CatchExit

SpecExit == InitExit /\ [][NextExit]_vars

\* C40: after a run that succeeded the exit code is the value the command
\* returned, or 0 when it returned none, whatever the mutex
C40_ExitCodeIsWhatTheCommandReturned ==
  main.stage = "succeeded" =>
    main.exitCode = IF main.returned = Undefined THEN <<0>> ELSE main.returned
====
